---- MODULE Spec2Model ----
(***************************************************************************)
(* Verification model of the route-planner backend:                        *)
(*   - Spec      the HTTP service of backend/main.py with its in-memory    *)
(*               stores (utils/storage.py) and the background job          *)
(*               process_supply_chain_analysis, interleaved at its awaits  *)
(*   - CostSpec  estimate_shipping_costs (tools/route_planning_tools.py)   *)
(*   - RankSpec  optimize_route_selection (tools/route_planning_tools.py)  *)
(*   - FlowSpec  the two agent graphs (agents/*.py) run by the graph       *)
(*               engine under recursion_limit 20                           *)
(*   - LiveSpec  uploads, polls and jobs under a fair event loop           *)
(*   - StoreSpec TaskStorage on its own (utils/storage.py)                 *)
(*   - DistSpec  calculate_route_distance (tools/route_planning_tools.py)  *)
(*   - ReturnSpec the job after optimize_routes returned (main.py 375-403) *)
(*   - ToolSpec  generate_route_waypoints and analyze_supply_chain_risks    *)
(*   - ScanSpec  the information agent taking tool results from its        *)
(*               conversation (agents/information_agent.py 109-233)        *)
(*   - IdSpec    two jobs storing returned routes (main.py 375-381)        *)
(* Amounts of money are exact rationals kept as integers (cents and        *)
(* fractions of a cent); timestamps are kept as the constant "ts".         *)
(***************************************************************************)
EXTENDS Integers, Sequences, FiniteSets, TLC

(* ------------------------------ bounds -------------------------------- *)
MaxLoops == 1
MaxRoutes == 1
Margin == 1
MaxCands == 4
MaxForecasts == 4
MaxTool == 3

(* ------------------------------ helpers ------------------------------- *)
EmptyDict == [k \in {} |-> 0]

\* Python: d[k] = v
Put(d, k, v) == [x \in DOMAIN d \cup {k} |-> IF x = k THEN v ELSE d[x]]

\* Python: d.update(u)
Merge(d, u) == [x \in DOMAIN d \cup DOMAIN u |-> IF x \in DOMAIN u THEN u[x] ELSE d[x]]

Min2(a, b) == IF a <= b THEN a ELSE b
Max2(a, b) == IF a >= b THEN a ELSE b

VARIABLES
  agents_ok,      \* main.py: information_agent and route_planning_agent are not None
  tasks,          \* task_storage.tasks
  uploads,        \* upload_storage.uploads
  routes,         \* route_storage.routes
  job,            \* the background jobs: locals and position of each
  returned,       \* task ids handed to clients by upload_data
  resp,           \* the last HTTP response
  touched,        \* history: <<job, task id>> for every task record a job step changed
  cost,           \* CostSpec: the calls of estimate_shipping_costs and their results
  rank,           \* RankSpec: a call of optimize_route_selection and its result
  flow,           \* FlowSpec: the state of one agent graph run
  call            \* DistSpec, StoreSpec: the call under study, its arguments and its result

svcVars == <<agents_ok, tasks, uploads, routes, job, returned, resp, touched>>

\* the variables of the specifications of single functions and of the agent graphs
unitVars == <<cost, rank, flow, call>>

vars == <<agents_ok, tasks, uploads, routes, job, returned, resp, touched, cost, rank, flow, call>>

Unused == [phase |-> "unused"]

(* ------------------------- utils/storage.py --------------------------- *)
create_task_lost(ts, task_id, task_data) == ts

create_task(ts, task_id, task_data) == Put(ts, task_id, task_data)

get_task(ts, task_id) == IF task_id \in DOMAIN ts THEN ts[task_id] ELSE EmptyDict

handle_exception_swallowed(ts, task_id, e) == ts

update_task_all(ts, task_id, updates) ==
  [x \in DOMAIN ts |-> Merge(ts[x], updates)]

update_task_dropped(ts, task_id, updates) == ts

update_task_upsert(ts, task_id, updates) ==
  Put(ts, task_id, IF task_id \in DOMAIN ts THEN Merge(ts[task_id], updates) ELSE updates)

update_task(ts, task_id, updates) ==
  IF task_id \in DOMAIN ts
    THEN [ts EXCEPT ![task_id] = Merge(ts[task_id], updates)]
    ELSE ts

store_upload_alone(us, upload_id, upload) == [x \in {upload_id} |-> upload]

store_upload(us, upload_id, upload) == Put(us, upload_id, upload)

store_route_alone(rs, route_id, route) == [x \in {route_id} |-> route]

store_route(rs, route_id, route) == Put(rs, route_id, route)

get_route_or_default(rs, route_id) ==
  IF route_id \in DOMAIN rs THEN rs[route_id]
  ELSE [id |-> route_id, status |-> "pending_approval"]

\* RouteStorage.get_route: the stored route, or None (the empty dictionary here)
storage_get_route(rs, route_id) == IF route_id \in DOMAIN rs THEN rs[route_id] ELSE EmptyDict

approve_every_route(rs, route_id) == [x \in DOMAIN rs |-> [rs[x] EXCEPT !.status = "approved"]]

\* RouteStorage.approve_route
storage_approve_route(rs, route_id) ==
  IF route_id \in DOMAIN rs THEN [rs EXCEPT ![route_id].status = "approved"] ELSE rs

(* ------------------- tools/information_tools.py ----------------------- *)
Regions == {"APAC", "EUROPE"}

\* what tavily_search.run does: raises, returns text (no list), or a list of results
TavilyOutcomes == {"raise", "text", "list"}

MockDisruptions ==
  << [source |-> "fallback_mock_data", impact_level |-> "high", region_affected |-> "Global"],
     [source |-> "fallback_mock_data", impact_level |-> "medium", region_affected |-> "APAC"] >>

\* region.upper() in d["region_affected"].upper(), for the regions of the model
RegionIn(region, affected) == region = affected

\* information_tools.py 238-243
FilterMock(region) ==
  SelectSeq(MockDisruptions,
            LAMBDA d : d.region_affected = "Global" \/ RegionIn(region, d.region_affected))

\* one processed search result (information_tools.py 197-206)
TavilyItem == [source |-> "tavily_web_search", impact_level |-> "medium", region_affected |-> "Global"]

search_reraises(region, tav) ==
  IF tav = "raise" THEN [raised |-> TRUE, items |-> << >>]
  ELSE IF tav = "list" THEN [raised |-> FALSE, items |-> << TavilyItem >>]
  ELSE [raised |-> FALSE, items |-> << >>]

\* the result of the tool: an exception that escapes it (raised) or the list it returns
search_supply_chain_disruptions(region, tav) ==
  IF tav = "raise" THEN [raised |-> FALSE, items |-> FilterMock(region)]
  ELSE IF tav = "list" THEN [raised |-> FALSE, items |-> << TavilyItem >>]
  ELSE [raised |-> FALSE, items |-> << >>]

Sources(items) == {items[i].source : i \in 1 .. Len(items)}

(* --------------------------- backend/main.py -------------------------- *)
\* the identifiers uuid.uuid4() hands to upload_data (main.py 129): two uploads
TaskIds == {"t1", "t2"}
NoId == "none"
UploadIdOf(k) == "upload/" \o k
NoResult == << >>

\* the body of the request, as far as the service looks at it
UploadInputs == [region : Regions]

\* the locals of a job that is not inside an agent
Idle(rec) == [rec EXCEPT !.next = "none", !.loops = 0, !.sources = {}, !.gathered = FALSE]

job_continues(rec, e) == [rec EXCEPT !.raised = @ \cup {e}, !.escaped = e]

\* an exception e reached the handler of main.py 405-413, the last statement of the job
job_ends(rec, e) == Idle([rec EXCEPT !.pc = "done", !.raised = @ \cup {e}, !.escaped = e])

\* POST /api/v1/data/upload
upload_data ==
  /\ returned # TaskIds
  /\ \E ud \in UploadInputs, enable_scenario \in BOOLEAN :
       IF ~agents_ok
         THEN /\ resp' = [op |-> "upload", id |-> NoId, code |-> 500]
              /\ UNCHANGED <<unitVars, agents_ok, tasks, uploads, routes, job, returned, touched>>
         ELSE LET task_id == CHOOSE t \in TaskIds \ returned : TRUE
                  upload_id == UploadIdOf(task_id)
              IN /\ uploads' = store_upload(uploads, upload_id,
                                 [id |-> upload_id, data |-> ud, uploaded_at |-> "ts",
                                  status |-> "processing", scenario_enabled |-> enable_scenario])
                 /\ tasks' = create_task(tasks, task_id,
                                 [task_id |-> task_id, upload_id |-> upload_id,
                                  status |-> "processing", progress |-> 10,
                                  current_step |-> "upload_received", created_at |-> "ts",
                                  upload_data |-> ud, scenario_enabled |-> enable_scenario])
                 /\ job' = Put(job, task_id,
                                 [task_id |-> task_id, upload_data |-> ud,
                                  enable_scenario |-> enable_scenario,
                                  pc |-> "scheduled", next |-> "none", loops |-> 0,
                                  sources |-> {}, gathered |-> FALSE,
                                  raised |-> {}, escaped |-> "none",
                                  info_result |-> NoResult, route_result |-> NoResult])
                 /\ returned' = returned \cup {task_id}
                 /\ resp' = [op |-> "upload", id |-> task_id, code |-> 200]
                 /\ UNCHANGED <<unitVars, agents_ok, routes, touched>>

\* GET /api/v1/tasks/{task_id}
get_task_status ==
  \E task_id \in TaskIds :
    /\ resp' = IF get_task(tasks, task_id) = EmptyDict
                 THEN [op |-> "get_task", id |-> task_id, code |-> 404]
                 ELSE [op |-> "get_task", id |-> task_id, code |-> 200]
    /\ UNCHANGED <<unitVars, agents_ok, tasks, uploads, routes, job, returned, touched>>

\* the route ids clients ask for: the ids the jobs give to their routes
RouteIds == {t \o "/route/" \o ToString(i) : t \in TaskIds, i \in 1 .. MaxRoutes}

\* GET /api/v1/routes/{route_id}
get_route ==
  \E route_id \in RouteIds :
    /\ resp' = [op |-> "get_route", id |-> route_id,
                code |-> IF storage_get_route(routes, route_id) = EmptyDict THEN 404 ELSE 200]
    /\ UNCHANGED <<unitVars, agents_ok, tasks, uploads, routes, job, returned, touched>>

\* POST /api/v1/routes/{route_id}/approve
approve_route ==
  \E route_id \in RouteIds, approved \in BOOLEAN :
    LET route == storage_get_route(routes, route_id)
    IN /\ IF route = EmptyDict
            THEN /\ resp' = [op |-> "approve_route", id |-> route_id, code |-> 404,
                             status |-> "none"]
                 /\ routes' = routes
            ELSE /\ routes' = IF approved THEN storage_approve_route(routes, route_id)
                              ELSE IF route_id \in DOMAIN routes
                                     THEN [routes EXCEPT ![route_id].status = "rejected"]
                                     ELSE routes
                 /\ resp' = [op |-> "approve_route", id |-> route_id, code |-> 200,
                             status |-> IF approved THEN "approved" ELSE "rejected"]
       /\ UNCHANGED <<unitVars, agents_ok, tasks, uploads, job, returned, touched>>

\* GET /api/v1/routes/{route_id}/visualization
get_route_visualization ==
  \E route_id \in RouteIds :
    /\ resp' = [op |-> "get_route_visualization", id |-> route_id,
                code |-> IF storage_get_route(routes, route_id) = EmptyDict THEN 404 ELSE 200]
    /\ UNCHANGED <<unitVars, agents_ok, tasks, uploads, routes, job, returned, touched>>

(* ---- background job: process_supply_chain_analysis (main.py 320-413) -- *)
TopN == 3

Changed(ts1, ts2) ==
  {t \in DOMAIN ts1 \cup DOMAIN ts2 :
     \/ t \notin DOMAIN ts1
     \/ t \notin DOMAIN ts2
     \/ ts1[t] # ts2[t]}

\* one step of job j between two suspension points: the task store and the job's locals after it
JobStep(j, ts, rec) ==
  /\ tasks' = ts
  /\ job' = [job EXCEPT ![j] = rec]
  /\ touched' = touched \cup {<<j, t>> : t \in Changed(tasks, ts)}

handle_exception_fresh_record(ts, task_id, e) ==
  Put(ts, task_id, [status |-> "failed", progress |-> 0, current_step |-> "error",
                    error |-> e, failed_at |-> "ts"])

handle_exception_without_error(ts, task_id, e) ==
  update_task(ts, task_id, [status |-> "failed", current_step |-> "error"])

\* except Exception as e (main.py 405-413)
handle_exception(ts, task_id, e) ==
  update_task(ts, task_id,
              [status |-> "failed", progress |-> 0, current_step |-> "error",
               error |-> e, failed_at |-> "ts"])

\* main.py 348-352; lists are kept as the sets of their items' kinds
DefaultInfo ==
  [domain_knowledge |-> {}, disruption_data |-> {},
   risk_assessment |-> [overall_risk |-> "low"]]

\* the result dictionary analyze_supply_chain builds from the final state of the graph
\* (information_agent.py 377-382)
InfoResult(rec) ==
  [domain_knowledge |-> {"knowledge"}, disruption_data |-> rec.sources,
   risk_assessment |-> [overall_risk |-> "assessed"]]

process_start_without_info(j) ==
  /\ job[j].pc = "scheduled"
  /\ LET rec == job[j]
         t0 == update_task(tasks, rec.task_id,
                 [status |-> "processing", progress |-> 20, current_step |-> "starting_analysis"])
         t2 == update_task(t0, rec.task_id,
                 [progress |-> 65, current_step |-> "starting_route_agent"])
     IN JobStep(j, t2, [rec EXCEPT !.pc = "route_stream", !.next = "react_agent",
                                   !.info_result = DefaultInfo])
  /\ UNCHANGED <<unitVars, agents_ok, uploads, routes, returned, resp>>

\* main.py 322-328, then 330-338 (scenario) or 345-373 (no scenario), up to the first await
process_start(j) ==
  /\ job[j].pc = "scheduled"
  /\ LET rec == job[j]
         t0 == update_task(tasks, rec.task_id,
                 [status |-> "processing", progress |-> 20, current_step |-> "starting_analysis"])
         t1 == update_task(t0, rec.task_id,
                 [progress |-> 60, current_step |-> "information_agent_skipped"])
         t2 == update_task(t1, rec.task_id,
                 [progress |-> 65, current_step |-> "starting_route_agent"])
     IN IF rec.enable_scenario
          THEN JobStep(j, t0, [rec EXCEPT !.pc = "info_stream", !.next = "react_agent"])
          ELSE JobStep(j, t2, [rec EXCEPT !.pc = "route_stream", !.next = "react_agent",
                                          !.info_result = DefaultInfo])
  /\ UNCHANGED <<unitVars, agents_ok, uploads, routes, returned, resp>>

\* InformationAgent._is_analysis_complete; gathered stands for "domain knowledge and a
\* risk assessment are in the state", sources for the disruption items in it
is_analysis_complete(rec) == rec.gathered /\ rec.sources # {}

\* one node of the information graph and the body of the async for loop
\* (information_agent.py 359-369): the node's update is written to the task
info_step(j) ==
  /\ job[j].pc = "info_stream"
  /\ LET rec == job[j] IN
     \/ /\ rec.next = "react_agent"
        /\ \E tav \in TavilyOutcomes \cup {"nocall"}, g \in BOOLEAN,
              nxt \in {"react_agent", "check_completion"} :
             /\ nxt = "react_agent" => rec.loops < MaxLoops
             /\ LET r == search_supply_chain_disruptions(rec.upload_data.region, tav)
                IN IF tav # "nocall" /\ r.raised
                     THEN JobStep(j, handle_exception(tasks, rec.task_id, "search failed"),
                                  job_ends([rec EXCEPT !.raised = @ \cup {"tavily"}],
                                           "search failed"))
                     ELSE JobStep(j,
                            update_task(tasks, rec.task_id,
                              [current_step |-> "info_agent_agent_processing", progress |-> 50]),
                            [rec EXCEPT !.next = nxt,
                                        !.loops = IF nxt = "react_agent" THEN @ + 1 ELSE @,
                                        !.sources = IF tav = "nocall" THEN @
                                                    ELSE @ \cup Sources(r.items),
                                        !.gathered = @ \/ g,
                                        !.raised = IF tav = "raise" THEN @ \cup {"tavily"} ELSE @])
     \/ /\ rec.next = "check_completion"
        /\ ~is_analysis_complete(rec) => rec.loops < MaxLoops
        /\ JobStep(j,
             update_task(tasks, rec.task_id,
               [current_step |-> "info_agent_checking_completion", progress |-> 30]),
             IF is_analysis_complete(rec)
               THEN [rec EXCEPT !.next = "finalize_analysis"]
               ELSE [rec EXCEPT !.next = "react_agent", !.loops = @ + 1])
     \/ /\ rec.next = "finalize_analysis"
        /\ JobStep(j,
             update_task(tasks, rec.task_id,
               [current_step |-> "info_agent_analysis_complete", progress |-> 80]),
             [rec EXCEPT !.pc = "info_end", !.next = "none", !.loops = 0])
  /\ UNCHANGED <<unitVars, agents_ok, uploads, routes, returned, resp>>

\* the information agent raises (an LLM error, the recursion limit, a failed run update):
\* information_agent.py 394-401 re-raises, main.py 405-413 records it
info_raise(j) ==
  /\ job[j].pc \in {"info_stream", "info_end"}
  /\ JobStep(j, handle_exception(tasks, job[j].task_id, "information agent error"),
             job_ends(job[j], "information agent error"))
  /\ UNCHANGED <<unitVars, agents_ok, uploads, routes, returned, resp>>

\* analyze_supply_chain returns; main.py 340-344 and 359-373 up to the next await
info_return(j) ==
  /\ job[j].pc = "info_end"
  /\ LET rec == job[j]
         info_result == InfoResult(rec)
         t1 == update_task(tasks, rec.task_id,
                 [progress |-> 60, current_step |-> "information_agent_complete",
                  info_analysis |-> info_result])
         t2 == update_task(t1, rec.task_id,
                 [progress |-> 65, current_step |-> "starting_route_agent"])
     IN JobStep(j, t2, [Idle(rec) EXCEPT !.pc = "route_stream", !.next = "react_agent",
                                         !.info_result = info_result])
  /\ UNCHANGED <<unitVars, agents_ok, uploads, routes, returned, resp>>

\* what the route agent hands back: for each optimized route, whether
\* OptimizedRoute.from_dict accepts it (schemas.py 68-91)
RouteLists == UNION {[1 .. n -> [ok : BOOLEAN]] : n \in 0 .. MaxRoutes}

RouteIdOf(task_id, i) == task_id \o "/route/" \o ToString(i)

\* the dictionary optimize_routes returns (route_planning_agent.py 597-605)
RouteResult(task_id, rl) ==
  [optimized_routes |-> [i \in 1 .. Len(rl) |-> [id |-> RouteIdOf(task_id, i), ok |-> rl[i].ok]],
   final_recommendation |-> [recommended_routes |-> Min2(TopN, Len(rl)),
                             total_routes_analyzed |-> Len(rl)]]

\* one node of the route graph and the body of the async for loop
\* (route_planning_agent.py 585-595)
route_step(j) ==
  /\ job[j].pc = "route_stream"
  /\ LET rec == job[j] IN
     \/ /\ rec.next = "react_agent"
        /\ \E nxt \in {"react_agent", "check_routes"} :
             /\ nxt = "react_agent" => rec.loops < MaxLoops
             /\ JobStep(j,
                  update_task(tasks, rec.task_id,
                    [current_step |-> "route_agent_agent_route_processing", progress |-> 80]),
                  [rec EXCEPT !.next = nxt,
                              !.loops = IF nxt = "react_agent" THEN @ + 1 ELSE @])
     \/ /\ rec.next = "check_routes"
        /\ \E nxt \in {"react_agent", "finalize_routes"} :
             /\ nxt = "react_agent" => rec.loops < MaxLoops
             /\ JobStep(j,
                  update_task(tasks, rec.task_id,
                    [current_step |-> "route_agent_checking_routes", progress |-> 70]),
                  [rec EXCEPT !.next = nxt,
                              !.loops = IF nxt = "react_agent" THEN @ + 1 ELSE @])
     \/ /\ rec.next = "finalize_routes"
        /\ \E rl \in RouteLists :
             JobStep(j,
               update_task(tasks, rec.task_id,
                 [current_step |-> "route_agent_optimization_complete", progress |-> 90]),
               [Idle(rec) EXCEPT !.pc = "route_end",
                                 !.route_result = RouteResult(rec.task_id, rl)])
  /\ UNCHANGED <<unitVars, agents_ok, uploads, routes, returned, resp>>

\* the route agent raises (an LLM error, the recursion limit); main.py 405-413 records it
route_raise(j) ==
  /\ job[j].pc = "route_stream"
  /\ JobStep(j, handle_exception(tasks, job[j].task_id, "route agent error"),
             job_ends(job[j], "route agent error"))
  /\ UNCHANGED <<unitVars, agents_ok, uploads, routes, returned, resp>>

store_routes_until_failure(rs, rlist) ==
  LET bad == {i \in 1 .. Len(rlist) : ~rlist[i].ok}
      good == {i \in 1 .. Len(rlist) : \A b \in bad : i < b}
  IN [x \in DOMAIN rs \cup {rlist[i].id : i \in good} |->
        IF \E i \in good : rlist[i].id = x THEN [id |-> x, status |-> "pending_approval"]
        ELSE rs[x]]

\* main.py 375-381: routes that from_dict rejects are skipped with a warning
RECURSIVE store_routes(_, _)
store_routes(rs, rlist) ==
  IF rlist = << >> THEN rs
  ELSE LET r == Head(rlist)
       IN store_routes(IF r.ok THEN store_route(rs, r.id, [id |-> r.id, status |-> "pending_approval"])
                               ELSE rs,
                       Tail(rlist))

\* main.py 384-393
FinalResult(info_result, route_result) ==
  [information_analysis |-> info_result,
   route_optimization |-> route_result,
   routes_generated |-> Len(route_result.optimized_routes),
   recommended_routes |-> route_result.final_recommendation.recommended_routes]

\* optimize_routes returns; main.py 375-403
route_return(j) ==
  /\ job[j].pc = "route_end"
  /\ LET rec == job[j]
     IN /\ routes' = store_routes(routes, rec.route_result.optimized_routes)
        /\ JobStep(j,
             update_task(tasks, rec.task_id,
               [status |-> "completed", progress |-> 100, current_step |-> "analysis_complete",
                result |-> FinalResult(rec.info_result, rec.route_result),
                completed_at |-> "ts"]),
             [rec EXCEPT !.pc = "done",
                         !.raised = IF \E i \in 1 .. Len(rec.route_result.optimized_routes) :
                                         ~rec.route_result.optimized_routes[i].ok
                                      THEN @ \cup {"from_dict"} ELSE @])
  /\ UNCHANGED <<unitVars, agents_ok, uploads, returned, resp>>

(* --------------------------- the service ------------------------------ *)
Init ==
  /\ agents_ok \in BOOLEAN
  /\ tasks = EmptyDict
  /\ uploads = EmptyDict
  /\ routes = EmptyDict
  /\ job = EmptyDict
  /\ returned = {}
  /\ resp = [op |-> "none", id |-> NoId, code |-> 0]
  /\ touched = {}
  /\ cost = Unused /\ rank = Unused /\ flow = Unused /\ call = Unused

Next ==
  \/ upload_data
  \/ get_task_status
  \/ get_route
  \/ approve_route
  \/ get_route_visualization
  \/ \E j \in DOMAIN job : process_start(j)
  \/ \E j \in DOMAIN job : info_step(j)
  \/ \E j \in DOMAIN job : info_raise(j)
  \/ \E j \in DOMAIN job : info_return(j)
  \/ \E j \in DOMAIN job : route_step(j)
  \/ \E j \in DOMAIN job : route_raise(j)
  \/ \E j \in DOMAIN job : route_return(j)

Spec == Init /\ [][Next]_vars

\* the next step of the background job of task j, whatever it is
JobNext(j) ==
  /\ j \in DOMAIN job
  /\ \/ process_start(j)
     \/ info_step(j) \/ info_raise(j) \/ info_return(j)
     \/ route_step(j) \/ route_raise(j) \/ route_return(j)

\* uploads, polls of a task and the steps of the background jobs
LiveNext ==
  \/ upload_data
  \/ get_task_status
  \/ \E j \in TaskIds : JobNext(j)

\* uploads, polls and jobs under the event loop: a job that can take a step is not held
\* back for ever, and an agent call of at most MaxLoops extra rounds returns or raises
LiveSpec == Init /\ [][LiveNext]_vars /\ \A j \in TaskIds : WF_vars(JobNext(j))

(* ----------------------- claims about the service --------------------- *)
Terminal == {"failed", "completed"}
Handled == {"tavily", "from_dict"}

\* C1, as stated: any exception raised while the job of a task runs leaves the task with
\* status 'failed' and error set to its message (progress 0, current_step 'error').
C1_AnyExceptionFailsTask ==
  \A j \in DOMAIN job :
    (job[j].pc = "done" /\ job[j].raised # {}) =>
      /\ tasks[j].status = "failed"
      /\ "error" \in DOMAIN tasks[j]
      /\ tasks[j].progress = 0
      /\ tasks[j].current_step = "error"

\* C1, amended: an exception that propagates out of an awaited agent call reaches the
\* top-level handler and leaves the task failed, with error its message, progress 0 and
\* current_step 'error' (and no result); exceptions handled where they occur (a failed
\* web search inside the tool, a route that from_dict rejects) do not fail the task.
C1_EscapedExceptionFailsTask ==
  \A j \in DOMAIN job :
    /\ job[j].escaped # "none" =>
         /\ job[j].pc = "done"
         /\ tasks[j].status = "failed"
         /\ "error" \in DOMAIN tasks[j] /\ tasks[j].error = job[j].escaped
         /\ tasks[j].progress = 0
         /\ tasks[j].current_step = "error"
         /\ "result" \notin DOMAIN tasks[j]
    /\ (job[j].pc = "done" /\ job[j].escaped = "none") =>
         /\ job[j].raised \subseteq Handled
         /\ tasks[j].status = "completed"
         /\ "error" \notin DOMAIN tasks[j]

C1_Witness ==
  \E j \in DOMAIN job :
    /\ job[j].escaped = "route agent error"
    /\ tasks[j].status = "failed" /\ tasks[j].error = "route agent error"
    /\ "info_analysis" \in DOMAIN tasks[j]

\* C2: once a task's status is 'failed' or 'completed', no later step of any job (and no
\* request) changes any field of that task's record.
C2_TerminalStatusesAreFinal ==
  [][\A t \in DOMAIN tasks :
       tasks[t].status \in Terminal => (t \in DOMAIN tasks' /\ tasks'[t] = tasks[t])]_vars

C2_Witness ==
  \E t1, t2 \in DOMAIN job :
    /\ t1 # t2
    /\ tasks[t1].status = "failed"
    /\ job[t2].pc = "done" /\ tasks[t2].status = "completed"
    /\ <<t2, t2>> \in touched

\* C3, as stated: a failure of the web-search call made by search_supply_chain_disruptions
\* propagates and the task ends with status 'failed'.
C3_SearchFailureFailsTask ==
  \A j \in DOMAIN job :
    (job[j].pc = "done" /\ "tavily" \in job[j].raised) => tasks[j].status = "failed"

\* C3, amended: a failure of the web-search call is caught inside
\* search_supply_chain_disruptions, which returns the fallback disruptions; it never
\* reaches the job's handler, the fallback items are in the agent's state and in the
\* analysis it returns, and the task completes unless another step raises.
C3_SearchFailureFallsBack ==
  \A j \in DOMAIN job :
    "tavily" \in job[j].raised =>
      /\ job[j].escaped # "search failed"
      /\ job[j].pc \in {"info_stream", "info_end"} => "fallback_mock_data" \in job[j].sources
      /\ job[j].info_result # NoResult =>
           "fallback_mock_data" \in job[j].info_result.disruption_data
      /\ (job[j].pc = "done" /\ job[j].escaped = "none") => tasks[j].status = "completed"

C3_Witness ==
  \E j \in DOMAIN job :
    /\ "tavily" \in job[j].raised
    /\ job[j].pc = "done"
    /\ tasks[j].status = "completed"
    /\ "fallback_mock_data" \in tasks[j].result.information_analysis.disruption_data

\* the record upload_data creates for a task (main.py 142-151)
CreatedTask(rec) ==
  [task_id |-> rec.task_id, upload_id |-> UploadIdOf(rec.task_id),
   status |-> "processing", progress |-> 10, current_step |-> "upload_received",
   created_at |-> "ts", upload_data |-> rec.upload_data,
   scenario_enabled |-> rec.enable_scenario]

\* C9: the upload record and the task record (status 'processing', progress 10, step
\* 'upload_received') exist before the job is scheduled and before the id is returned:
\* every returned id and every job names a stored task, a job that has not started leaves
\* the record as created, and GET /tasks/{id} with a returned id never answers 404.
C9_TaskExistsBeforeJobAndReply ==
  /\ \A t \in returned :
       /\ t \in DOMAIN tasks
       /\ UploadIdOf(t) \in DOMAIN uploads
       /\ tasks[t].upload_id = UploadIdOf(t)
  /\ \A j \in DOMAIN job :
       /\ job[j].task_id \in DOMAIN tasks
       /\ job[j].pc = "scheduled" => tasks[job[j].task_id] = CreatedTask(job[j])
  /\ resp.op = "upload" /\ resp.code = 200 => resp.id \in DOMAIN tasks
  /\ (resp.op = "get_task" /\ resp.id \in returned) => resp.code = 200

C9_Witness ==
  /\ resp.op = "get_task" /\ resp.id \in returned /\ resp.code = 200
  /\ job[resp.id].pc = "scheduled"
  /\ tasks[resp.id].progress = 10

\* the record of a task whose job ran alone, from the outcomes of its agents
AloneFinal(rec) ==
  LET created == CreatedTask(rec)
      analysed == IF rec.enable_scenario /\ rec.info_result # NoResult
                    THEN Merge(created, [info_analysis |-> rec.info_result])
                    ELSE created
  IN IF rec.escaped # "none"
       THEN Merge(analysed, [status |-> "failed", progress |-> 0, current_step |-> "error",
                             error |-> rec.escaped, failed_at |-> "ts"])
       ELSE Merge(analysed, [status |-> "completed", progress |-> 100,
                             current_step |-> "analysis_complete",
                             result |-> FinalResult(rec.info_result, rec.route_result),
                             completed_at |-> "ts"])

\* C10: in every interleaving of the jobs, a job changes only the task record of its own
\* task id, and a finished job leaves its task exactly as a run alone with the same agent
\* outcomes would.
C10_JobsAreIsolated ==
  /\ \A p \in touched : p[2] = job[p[1]].task_id
  /\ \A j \in DOMAIN job : job[j].pc = "done" => tasks[job[j].task_id] = AloneFinal(job[j])

C10_Witness ==
  \E t1, t2 \in DOMAIN job :
    /\ t1 # t2
    /\ job[t1].pc = "done" /\ tasks[t1].status = "completed"
    /\ job[t2].pc = "route_stream" /\ job[t2].enable_scenario
    /\ tasks[t2].progress = 70
    /\ {<<t1, t1>>, <<t2, t2>>} \subseteq touched

(* ------- tools/route_planning_tools.py: estimate_shipping_costs ------- *)
\* Money is exact: rates are tenths of a dollar per km and unit, the risk multiplier is
\* in tenths, discounts are percentages, and a total is a whole number of cents.
QtyTier1 == 100
QtyTier2 == 500
QtyTier3 == 1000
DistTier2 == 2000
DistTier3 == 5000

\* str.lower() on the mode names of the model
Lower(mode) == IF mode = "AIR" THEN "air" ELSE mode

\* base_costs.get(mode, 1.0), in tenths of a dollar
BaseCost10(mode) ==
  CASE mode = "air" -> 25
    [] mode = "sea" -> 3
    [] mode = "land" -> 12
    [] mode = "rail" -> 8
    [] mode = "multimodal" -> 10
    [] OTHER -> 10

\* fixed_costs.get(mode, 400), in dollars
FixedCost(mode) ==
  CASE mode = "air" -> 500
    [] mode = "sea" -> 800
    [] mode = "land" -> 200
    [] mode = "rail" -> 300
    [] mode = "multimodal" -> 600
    [] OTHER -> 400

\* volume_discount, in percent (route_planning_tools.py 79-86)
VolumeDiscount(distance_km, quantity) ==
  IF distance_km > DistTier3 /\ quantity > QtyTier3 THEN 15
  ELSE IF distance_km > DistTier2 /\ quantity > QtyTier2 THEN 10
  ELSE IF quantity > QtyTier1 THEN 5
  ELSE 0

\* n * m / d as quotient and remainder, without forming n * m
MulDivQ(n, m, d) == (n \div d) * m + ((n % d) * m) \div d
MulDivR(n, m, d) == ((n % d) * m) % d

\* round(): to the nearest integer, halves to the even one
RoundHalfEven(q, r, d) ==
  IF 2 * r > d \/ (2 * r = d /\ q % 2 = 1) THEN q + 1 ELSE q

CentScale == 10000

estimate_per_unit(distance_km, transport_mode, quantity, risk10) ==
  LET mode == Lower(transport_mode)
      n == distance_km * quantity * BaseCost10(mode)
      pct == VolumeDiscount(distance_km, quantity)
      m == (100 - pct) * risk10
      final_cents == RoundHalfEven(MulDivQ(n, m, CentScale), MulDivR(n, m, CentScale), CentScale)
  IN [raised |-> quantity = 0,
      volume_discount_rate |-> pct,
      handling_fee |-> FixedCost(mode),
      base_shipping |-> final_cents,
      total_cost |-> IF quantity = 0 THEN 0
                     ELSE (final_cents + 100 * FixedCost(mode)) \div quantity]

\* estimate_shipping_costs: total_cost and base_shipping in cents; raised when
\* cost_per_unit divides by a quantity of zero
estimate_shipping_costs(distance_km, transport_mode, quantity, risk10) ==
  LET mode == Lower(transport_mode)
      n == distance_km * quantity * BaseCost10(mode)
      pct == VolumeDiscount(distance_km, quantity)
      m == (100 - pct) * risk10
      final_cents == RoundHalfEven(MulDivQ(n, m, CentScale), MulDivR(n, m, CentScale), CentScale)
  IN [raised |-> quantity = 0,
      volume_discount_rate |-> pct,
      handling_fee |-> FixedCost(mode),
      base_shipping |-> final_cents,
      total_cost |-> final_cents + 100 * FixedCost(mode)]

Near(t) == (t - Margin) .. (t + Margin)
Distances == (0 .. Margin) \cup Near(DistTier2) \cup Near(DistTier3)
Quantities == (1 .. Margin + 1) \cup Near(QtyTier1) \cup Near(QtyTier2) \cup Near(QtyTier3)
Modes == {"air", "sea", "land", "rail", "multimodal", "AIR", "truck"}
RiskMultipliers10 == {10, 15}
CostArgs == [distance_km : Distances, quantity : Quantities]

\* two calls with the same mode and risk multiplier, the second with a larger distance
\* or a larger quantity
CostInit ==
  /\ cost \in [phase : {"calls"}, transport_mode : Modes, risk10 : RiskMultipliers10,
               a : CostArgs, b : CostArgs, results : {<< >>}]
  /\ \/ cost.a.quantity = cost.b.quantity /\ cost.a.distance_km <= cost.b.distance_km
     \/ cost.a.distance_km = cost.b.distance_km /\ cost.a.quantity <= cost.b.quantity
  /\ agents_ok = TRUE /\ tasks = EmptyDict /\ uploads = EmptyDict /\ routes = EmptyDict
  /\ job = EmptyDict /\ returned = {} /\ touched = {}
  /\ resp = [op |-> "none", id |-> NoId, code |-> 0]
  /\ rank = Unused /\ flow = Unused /\ call = Unused

estimate_call ==
  /\ cost.phase = "calls"
  /\ Len(cost.results) < 2
  /\ LET args == IF cost.results = << >> THEN cost.a ELSE cost.b
     IN cost' = [cost EXCEPT !.results =
                   Append(@, estimate_shipping_costs(args.distance_km, cost.transport_mode,
                                                     args.quantity, cost.risk10))]
  /\ UNCHANGED <<svcVars, rank, flow, call>>

CostNext == estimate_call

CostSpec == CostInit /\ [][CostNext]_vars

Estimated == cost.phase = "calls" /\ Len(cost.results) = 2

\* C4, as stated: for a fixed mode and risk multiplier total_cost is non-decreasing in
\* distance_km and in quantity, also across the volume-discount thresholds.
C4_CostMonotone ==
  Estimated => cost.results[1].total_cost <= cost.results[2].total_cost

\* C4, amended: for a fixed mode and a risk multiplier >= 0, total_cost is non-decreasing
\* in distance_km and in quantity between two calls that get the same volume discount
\* rate; where the larger call reaches a higher discount tier the total may drop.
C4_CostMonotoneWithinTier ==
  (Estimated /\ cost.results[1].volume_discount_rate = cost.results[2].volume_discount_rate)
    => cost.results[1].total_cost <= cost.results[2].total_cost

C4_Witness ==
  /\ Estimated
  /\ cost.results[1].volume_discount_rate = 10 /\ cost.results[2].volume_discount_rate = 10
  /\ cost.a.quantity < cost.b.quantity
  /\ cost.results[1].total_cost < cost.results[2].total_cost

(* ------ tools/route_planning_tools.py: optimize_route_selection ------- *)
\* Scores are kept in thousandths, risk_score in tenths. A JSON value is a record with
\* its type in the field json; a JSON object carries its members as a record in fields.
DefaultCost == 1000

\* time_factors.get(mode, 0.5) and reliability_factors.get(mode, 0.6), in tenths
TimeFactor10(mode) ==
  CASE mode = "air" -> 9 [] mode = "sea" -> 3 [] mode = "land" -> 6
    [] mode = "rail" -> 7 [] mode = "multimodal" -> 5 [] OTHER -> 5

ReliabilityFactor10(mode) ==
  CASE mode = "air" -> 8 [] mode = "sea" -> 6 [] mode = "land" -> 7
    [] mode = "rail" -> 9 [] mode = "multimodal" -> 6 [] OTHER -> 6

IsDict(v) == v.json = "object"

\* route.get("total_cost", 1000)
GetCost(route) == IF "total_cost" \in DOMAIN route THEN route.total_cost ELSE DefaultCost

MaxOf(S) == CHOOSE y \in S : \A z \in S : z <= y

MinOf(S) == CHOOSE y \in S : \A z \in S : y <= z

\* weights (lines 141-146), in thousandths
Weights == [cost |-> 350, risk |-> 250, time |-> 200, reliability |-> 200]

\* the weighted risk, time and reliability parts of the composite score, in thousandths
RestScore(route) ==
  (Weights.risk * (10 - route.risk_score)
     + Weights.time * TimeFactor10(route.transport_mode)
     + Weights.reliability * ReliabilityFactor10(route.transport_mode)) \div 10

score_route_dearest_first(route, max_cost, min_cost) ==
  LET spread == max_cost - min_cost
      num == GetCost(route) - min_cost
      cost_score == IF spread = 0 THEN 1000
                    ELSE RoundHalfEven((1000 * num) \div spread, (1000 * num) % spread, spread)
      rest == RestScore(route)
      composite == IF spread = 0 THEN Weights.cost + rest
                   ELSE RoundHalfEven((Weights.cost * num + rest * spread) \div spread,
                                      (Weights.cost * num + rest * spread) % spread, spread)
  IN Merge(route, [cost_score |-> cost_score,
                   risk_score_normalized |-> 100 * (10 - route.risk_score),
                   time_score |-> 100 * TimeFactor10(route.transport_mode),
                   reliability_score |-> 100 * ReliabilityFactor10(route.transport_mode),
                   composite_score |-> composite,
                   optimization_rank |-> 0])

\* lines 156-194: the candidate with its score fields
score_route(route, max_cost, min_cost) ==
  LET spread == max_cost - min_cost
      num == max_cost - GetCost(route)
      cost_score == IF spread = 0 THEN 1000
                    ELSE RoundHalfEven((1000 * num) \div spread, (1000 * num) % spread, spread)
      rest == RestScore(route)
      composite == IF spread = 0 THEN Weights.cost + rest
                   ELSE RoundHalfEven((Weights.cost * num + rest * spread) \div spread,
                                      (Weights.cost * num + rest * spread) % spread, spread)
  IN Merge(route, [cost_score |-> cost_score,
                   risk_score_normalized |-> 100 * (10 - route.risk_score),
                   time_score |-> 100 * TimeFactor10(route.transport_mode),
                   reliability_score |-> 100 * ReliabilityFactor10(route.transport_mode),
                   composite_score |-> composite,
                   optimization_rank |-> 0])

\* where a route goes in a list ordered by descending score: after every route that
\* scores higher or the same (InsertAfterEqual), or after every route that scores higher
RECURSIVE InsertAfterEqual(_, _)
InsertAfterEqual(sorted, r) ==
  IF sorted = << >> THEN << r >>
  ELSE IF Head(sorted).composite_score >= r.composite_score
       THEN << Head(sorted) >> \o InsertAfterEqual(Tail(sorted), r)
       ELSE << r >> \o sorted

RECURSIVE InsertBeforeEqual(_, _)
InsertBeforeEqual(sorted, r) ==
  IF sorted = << >> THEN << r >>
  ELSE IF Head(sorted).composite_score > r.composite_score
       THEN << Head(sorted) >> \o InsertBeforeEqual(Tail(sorted), r)
       ELSE << r >> \o sorted

RECURSIVE sorted_ties_reversed(_)
sorted_ties_reversed(scored) ==
  IF scored = << >> THEN << >>
  ELSE InsertBeforeEqual(sorted_ties_reversed(SubSeq(scored, 1, Len(scored) - 1)),
                         scored[Len(scored)])

sorted_as_given(scored) == scored

\* sorted(scored_routes, key=composite_score, reverse=True): a stable sort
RECURSIVE sorted_by_score(_)
sorted_by_score(scored) ==
  IF scored = << >> THEN << >>
  ELSE InsertAfterEqual(sorted_by_score(SubSeq(scored, 1, Len(scored) - 1)),
                        scored[Len(scored)])

recommended_always(i) == TRUE

\* route["recommended"] = i < 3, i counted from 0
is_recommended(i) == i < TopN

recommendation_reason(i, route) ==
  IF i = 0 THEN "Best overall balance of cost, risk, and reliability"
  ELSE IF route.cost_score > 800 THEN "Most cost-effective option"
  ELSE IF route.risk_score_normalized > 800 THEN "Lowest risk alternative"
  ELSE IF route.time_score > 800 THEN "Fastest delivery option"
  ELSE "Balanced alternative option"

rank_error_raised(msg) ==
  [raised |-> TRUE, error |-> msg, optimized_routes |-> << >>, recommended_routes |-> << >>,
   best_route_id |-> 0]

\* return {"error": msg}
RankError(msg) ==
  [raised |-> FALSE, error |-> msg, optimized_routes |-> << >>, recommended_routes |-> << >>,
   best_route_id |-> 0]

RankRaised(exc) ==
  [raised |-> TRUE, error |-> exc, optimized_routes |-> << >>, recommended_routes |-> << >>,
   best_route_id |-> 0]

optimize_route_selection(candidate_routes_json) ==
  IF candidate_routes_json.json = "invalid"
  THEN RankError("Invalid JSON format for candidate routes")
  ELSE IF candidate_routes_json.json # "array" \/ candidate_routes_json.items = << >>
  THEN RankError("No candidate routes provided")
  ELSE
    LET items == candidate_routes_json.items
        idx == 1 .. Len(items)
        dicts == SelectSeq(items, IsDict)
    IN IF dicts = << >> THEN RankRaised("ZeroDivisionError")
       ELSE IF \E i \in idx : ~IsDict(items[i]) THEN RankRaised("AttributeError")
       ELSE
         LET costs == {GetCost(items[i].fields) : i \in idx}
             scored == [i \in idx |-> score_route(items[i].fields, MaxOf(costs), MinOf(costs))]
             ordered == sorted_by_score(scored)
             optimized == [i \in 1 .. Len(ordered) |->
                             Merge(ordered[i],
                                   [optimization_rank |-> i,
                                    recommended |-> is_recommended(i - 1),
                                    recommendation_reason |->
                                      recommendation_reason(i - 1, ordered[i])])]
             Flagged(r) == r.recommended
         IN IF \E i \in idx : "total_cost" \notin DOMAIN items[i].fields
            THEN RankRaised("KeyError")
            ELSE [raised |-> FALSE, error |-> "",
                  optimized_routes |-> optimized,
                  recommended_routes |-> SelectSeq(optimized, Flagged),
                  best_route_id |-> optimized[1].id]

CandidateCosts == {100, 200, 400}
CandidateRisks10 == {0, 5, 10}
CandidateModes == {"air", "sea"}

\* the entries of a candidate list: routes, a route without total_cost, a JSON string
Entries ==
  { [json |-> "object", total_cost |-> c, risk_score |-> r, transport_mode |-> m] :
      c \in CandidateCosts, r \in CandidateRisks10, m \in CandidateModes }
  \cup { [json |-> "object", risk_score |-> 2, transport_mode |-> "land"],
         [json |-> "string"] }

\* the entry at position i of the list; a route's id is its position in the input
EntryAt(e, i) ==
  IF e.json # "object" THEN e
  ELSE [json |-> "object",
        fields |-> IF "total_cost" \in DOMAIN e
                   THEN [id |-> i, total_cost |-> e.total_cost, risk_score |-> e.risk_score,
                         transport_mode |-> e.transport_mode]
                   ELSE [id |-> i, risk_score |-> e.risk_score,
                         transport_mode |-> e.transport_mode]]

RankInputs ==
  { [json |-> "invalid"], [json |-> "object"], [json |-> "string"], [json |-> "null"] }
  \cup { [json |-> "array", items |-> [i \in DOMAIN f |-> EntryAt(f[i], i)]] :
           f \in UNION { [1 .. n -> Entries] : n \in 0 .. MaxCands } }

RankInit ==
  /\ rank \in [phase : {"called"}, input : RankInputs, output : {<< >>}]
  /\ agents_ok = TRUE /\ tasks = EmptyDict /\ uploads = EmptyDict /\ routes = EmptyDict
  /\ job = EmptyDict /\ returned = {} /\ touched = {}
  /\ resp = [op |-> "none", id |-> NoId, code |-> 0]
  /\ cost = Unused /\ flow = Unused /\ call = Unused

optimize_call ==
  /\ rank.phase = "called"
  /\ rank' = [rank EXCEPT !.phase = "returned",
                          !.output = optimize_route_selection(rank.input)]
  /\ UNCHANGED <<svcVars, cost, flow, call>>

RankNext == optimize_call

RankSpec == RankInit /\ [][RankNext]_vars

Ranked == rank.phase = "returned" /\ ~rank.output.raised /\ rank.output.error = ""

\* the fields a scored route has kept from the candidate it was made from
Original(r) == [k \in DOMAIN r \cap {"id", "total_cost", "risk_score", "transport_mode"} |-> r[k]]

\* C5: recommended_routes (the routes flagged recommended) holds at most three routes,
\* each of them is a candidate of the input with its id and original fields unchanged,
\* and no candidate appears in it twice.
C5_Top3FromInput ==
  Ranked =>
    LET rec == rank.output.recommended_routes
        items == rank.input.items
    IN /\ Len(rec) <= 3
       /\ \A i \in 1 .. Len(rec) :
            /\ rec[i].recommended
            /\ rec[i].id \in 1 .. Len(items)
            /\ IsDict(items[rec[i].id])
            /\ Original(rec[i]) = items[rec[i].id].fields
       /\ \A i, j \in 1 .. Len(rec) : rec[i].id = rec[j].id => i = j
       /\ \A i \in 1 .. Len(rank.output.optimized_routes) :
            rank.output.optimized_routes[i].recommended
              => \E j \in 1 .. Len(rec) : rec[j] = rank.output.optimized_routes[i]

C5_Witness ==
  /\ Ranked
  /\ Len(rank.input.items) > 3
  /\ Len(rank.output.recommended_routes) = 3
  /\ rank.output.recommended_routes[1].id # 1

\* C6: routes with equal composite score keep their input order in optimized_routes and
\* in recommended_routes.
C6_StableOnTies ==
  Ranked =>
    /\ \A i, j \in 1 .. Len(rank.output.optimized_routes) :
         LET a == rank.output.optimized_routes[i]
             b == rank.output.optimized_routes[j]
         IN (i < j /\ a.composite_score = b.composite_score) => a.id < b.id
    /\ \A i, j \in 1 .. Len(rank.output.recommended_routes) :
         LET a == rank.output.recommended_routes[i]
             b == rank.output.recommended_routes[j]
         IN (i < j /\ a.composite_score = b.composite_score) => a.id < b.id

C6_Witness ==
  /\ Ranked
  /\ \E i, j, k \in 1 .. Len(rank.output.optimized_routes) :
       LET o == rank.output.optimized_routes
       IN /\ i < j /\ o[i].composite_score = o[j].composite_score
          /\ o[k].composite_score > o[i].composite_score /\ o[k].id > o[j].id

(* ---------- agents/*.py: the two agent graphs under the engine -------- *)
\* One run of a compiled graph. The graph engine is the library's: it runs one node per
\* step, follows the node's conditional edge, and stops the run with a recursion error
\* when recursion_limit steps were taken without reaching END. A run that a node or an
\* edge function ends by raising keeps the exception in error: "Exception" for a failed
\* LLM or tool call inside the node, "AttributeError" for .lower() on a list. The LLM and its tools are
\* the environment: every react_agent step draws what they return.
RecursionLimit == 20

Agents == {"information", "route"}
\* the last message of a react_agent step: it carries tool calls, it is text with a
\* completion phrase, it is other text, or its content is a list of content blocks
LastKinds == {"tool_calls", "phrase", "plain", "blocks"}
\* the lengths of the rankings optimize_route_selection hands to the agent
OptSizes == {1, 4}

limit_inclusive(steps) == steps <= RecursionLimit

\* recursion_limit: 20 in the config of workflow.astream
WithinLimit(steps) == steps < RecursionLimit

build_count_without_forecasts(forecasts, nd, nc) ==
  IF Min2(forecasts, Min2(nd, nc)) > 0 THEN Min2(forecasts, Min2(nd, nc))
  ELSE IF nd > 0 \/ nc > 0 THEN 1
  ELSE 0

build_count_longest(forecasts, nd, nc) ==
  IF forecasts = 0 THEN 0
  ELSE IF Min2(forecasts, Max2(nd, nc)) > 0 THEN Min2(forecasts, Max2(nd, nc))
  ELSE 0

\* _build_routes_from_tool_collections: the number of candidate routes built
build_count(forecasts, nd, nc) ==
  IF forecasts = 0 THEN 0
  ELSE IF Min2(forecasts, Min2(nd, nc)) > 0 THEN Min2(forecasts, Min2(nd, nc))
  ELSE IF nd > 0 \/ nc > 0 THEN 1
  ELSE 0

EnoughRoutes(f) == f.cand >= f.forecasts \/ f.opt >= 1 \/ f.cand >= 3

\* _should_continue_planning; "raise" is the AttributeError of .lower() on a list
should_continue_planning(f) ==
  IF EnoughRoutes(f) THEN "check"
  ELSE IF f.last = "tool_calls" THEN "continue"
  ELSE IF f.last = "blocks" THEN "raise"
  ELSE IF f.last = "phrase" THEN "check"
  ELSE "continue"

routes_always_complete(f) == "finalize"

\* _are_routes_complete
are_routes_complete(f) == IF EnoughRoutes(f) THEN "finalize" ELSE "continue"

\* _should_continue_analysis
should_continue_analysis(f) ==
  IF f.last = "tool_calls" THEN "continue"
  ELSE IF f.last = "blocks" THEN "raise"
  ELSE IF f.last = "phrase" THEN "check"
  ELSE "continue"

analysis_without_risk(f) ==
  IF f.domain >= 1 /\ f.disruption >= 1 THEN "finalize" ELSE "continue"

\* _is_analysis_complete
analysis_complete(f) ==
  IF f.domain >= 1 /\ f.disruption >= 1 /\ f.risk THEN "finalize" ELSE "continue"

Routed(f, edge, check_node) ==
  IF edge = "raise" THEN [f EXCEPT !.status = "raised", !.node = "END",
                                   !.error = "AttributeError"]
  ELSE [f EXCEPT !.node = IF edge = "check" THEN check_node ELSE "react_agent"]

Stepped(f) == [f EXCEPT !.steps = @ + 1, !.prev = f.node]

FlowInit ==
  /\ flow \in [phase : {"run"}, agent : Agents, node : {"react_agent"}, prev : {"START"},
               steps : {0}, status : {"running"}, error : {"none"}, last : {"none"},
               forecasts : 0 .. MaxForecasts, nd : {0}, nc : {0}, cand : {0}, opt : {0},
               domain : {0}, disruption : {0}, risk : {FALSE},
               complete : {FALSE}, how : {"none"}, recommended : {{}}, analyzed : {0}]
  /\ flow.agent = "information" => flow.forecasts = 0
  /\ agents_ok = TRUE /\ tasks = EmptyDict /\ uploads = EmptyDict /\ routes = EmptyDict
  /\ job = EmptyDict /\ returned = {} /\ touched = {}
  /\ resp = [op |-> "none", id |-> NoId, code |-> 0]
  /\ cost = Unused /\ rank = Unused /\ call = Unused

Running(agent, node) ==
  /\ flow.phase = "run" /\ flow.agent = agent /\ flow.status = "running"
  /\ flow.node = node
  /\ WithinLimit(flow.steps)

\* InformationAgent._react_agent_node and its conditional edge
info_react_agent_node ==
  /\ Running("information", "react_agent")
  /\ \/ flow' = [Stepped(flow) EXCEPT !.status = "raised", !.node = "END",
                                         !.error = "Exception"]
     \/ \E dk \in flow.domain .. MaxTool, dd \in flow.disruption .. MaxTool,
           rk \in {flow.risk, TRUE}, last \in LastKinds :
          LET f == [Stepped(flow) EXCEPT !.domain = dk, !.disruption = dd, !.risk = rk,
                                         !.last = last]
          IN flow' = Routed(f, should_continue_analysis(f), "check_completion")
  /\ UNCHANGED <<svcVars, cost, rank, call>>

\* InformationAgent._check_completion_node and its conditional edge
check_completion_node ==
  /\ Running("information", "check_completion")
  /\ flow' = [Stepped(flow) EXCEPT
                !.node = IF analysis_complete(flow) = "finalize" THEN "finalize_analysis"
                         ELSE "react_agent"]
  /\ UNCHANGED <<svcVars, cost, rank, call>>

\* InformationAgent._finalize_analysis_node, then END
finalize_analysis_node ==
  /\ Running("information", "finalize_analysis")
  /\ flow' = [Stepped(flow) EXCEPT !.node = "END", !.status = "finalized",
                                   !.complete = TRUE]
  /\ UNCHANGED <<svcVars, cost, rank, call>>

\* RoutePlanningAgent._react_agent_node and its conditional edge
route_react_agent_node ==
  /\ Running("route", "react_agent")
  /\ \/ flow' = [Stepped(flow) EXCEPT !.status = "raised", !.node = "END",
                                         !.error = "Exception"]
     \/ \E nd \in flow.nd .. MaxTool, nc \in flow.nc .. MaxTool,
           opt \in {flow.opt} \cup OptSizes, last \in LastKinds :
          LET built == build_count(flow.forecasts, nd, nc)
              f == [Stepped(flow) EXCEPT !.nd = nd, !.nc = nc, !.opt = opt, !.last = last,
                                         !.cand = IF built > 0 THEN built ELSE @]
          IN flow' = Routed(f, should_continue_planning(f), "check_routes")
  /\ UNCHANGED <<svcVars, cost, rank, call>>

\* RoutePlanningAgent._check_routes_node and its conditional edge
check_routes_node ==
  /\ Running("route", "check_routes")
  /\ flow' = [Stepped(flow) EXCEPT
                !.node = IF are_routes_complete(flow) = "finalize" THEN "finalize_routes"
                         ELSE "react_agent"]
  /\ UNCHANGED <<svcVars, cost, rank, call>>

\* optimized_routes[:3], as the positions taken from a list of n routes
first_three(n) == {i \in 1 .. n : i <= TopN}

\* what the final call of optimize_route_selection does with the candidates
FinalOutcomes == {"ranked", "error", "raised"}

finalize_without_fallback(f, outcome) ==
  LET late == f.cand > 0 /\ f.opt = 0
      n == IF late /\ outcome = "ranked" THEN f.cand ELSE f.opt
  IN [Stepped(f) EXCEPT !.node = "END", !.status = "finalized", !.complete = TRUE,
                        !.opt = n,
                        !.how = IF late THEN outcome ELSE IF f.opt > 0 THEN "tool" ELSE "none",
                        !.recommended = first_three(n), !.analyzed = n]

\* RoutePlanningAgent._finalize_routes_node, then END: candidates that were never
\* optimized are ranked now, or taken as they are when the ranking returns an error or
\* raises; how tells where optimized_routes came from
finalize_routes(f, outcome) ==
  LET late == f.cand > 0 /\ f.opt = 0
      n == IF late THEN f.cand ELSE f.opt
  IN [Stepped(f) EXCEPT !.node = "END", !.status = "finalized", !.complete = TRUE,
                        !.opt = n,
                        !.how = IF late THEN outcome ELSE IF f.opt > 0 THEN "tool" ELSE "none",
                        !.recommended = first_three(n), !.analyzed = n]

finalize_routes_node ==
  /\ Running("route", "finalize_routes")
  /\ \E outcome \in FinalOutcomes : flow' = finalize_routes(flow, outcome)
  /\ UNCHANGED <<svcVars, cost, rank, call>>

\* the engine: the step limit is used up and the run has not reached END
graph_recursion_error ==
  /\ flow.phase = "run" /\ flow.status = "running"
  /\ ~WithinLimit(flow.steps)
  /\ flow' = [flow EXCEPT !.status = "recursion_error", !.node = "END"]
  /\ UNCHANGED <<svcVars, cost, rank, call>>

FlowNext ==
  \/ info_react_agent_node
  \/ check_completion_node
  \/ finalize_analysis_node
  \/ route_react_agent_node
  \/ check_routes_node
  \/ finalize_routes_node
  \/ graph_recursion_error

\* astream drives the run until it ends: a pending step is always taken
FlowSpec == FlowInit /\ [][FlowNext]_vars /\ WF_vars(FlowNext)

FlowRun == flow.phase = "run"

\* C7, as stated: a run takes at most 20 graph steps and then has reached its finalize
\* node or has stopped with a recursion-limit error.
C7_EndsFinalizedOrRecursionError ==
  FlowRun =>
    /\ flow.steps <= 20
    /\ flow.status # "running" => flow.status \in {"finalized", "recursion_error"}

\* C7, amended: a run of either agent graph takes at most 20 graph steps and always
\* ends; it ends finalized, with a recursion-limit error, or with the exception a node
\* raised (a failed LLM or tool call, .lower() on a list-valued answer).
C7_RunIsBounded ==
  /\ [](FlowRun =>
          /\ flow.steps <= 20
          /\ flow.status \in {"running", "finalized", "recursion_error", "raised"}
          /\ flow.status = "finalized" => flow.prev \in {"finalize_analysis", "finalize_routes"}
          /\ flow.status = "recursion_error" => flow.steps = 20)
  /\ <>(FlowRun /\ flow.status # "running")

C7_Witness ==
  /\ FlowRun /\ flow.status = "recursion_error" /\ flow.steps = 20
  /\ flow.prev = "check_routes"

\* C8: finalize_routes is entered only with candidates >= forecasts, or an optimized
\* route, or three candidates; in every other state check_routes leads back to
\* react_agent.
C8_FinalizeOnlyWhenEnough ==
  [][(FlowRun /\ flow.agent = "route") =>
       /\ flow'.node = "finalize_routes" => EnoughRoutes(flow')
       /\ (flow.node = "check_routes" /\ flow'.steps = flow.steps + 1 /\ ~EnoughRoutes(flow))
            => (flow'.node = "react_agent" /\ flow'.status = "running")
       /\ (flow.node = "check_routes" /\ flow'.steps = flow.steps + 1 /\ EnoughRoutes(flow))
            => flow'.node = "finalize_routes"]_vars

C8_Witness ==
  /\ FlowRun /\ flow.agent = "route"
  /\ flow.prev = "check_routes" /\ flow.node = "react_agent"
  /\ flow.cand = 2 /\ flow.forecasts > 3 /\ flow.steps > 2

(* ------------- utils/storage.py: TaskStorage on its own --------------- *)
\* The task store under arbitrary calls of create_task and update_task, for known and
\* unknown task ids; call keeps the last call and the store before it.
StoreKeys == {"status", "current_step", "error"}

StoreValues(k) ==
  CASE k = "status" -> {"processing", "failed"}
    [] k = "current_step" -> {"upload_received", "error"}
    [] OTHER -> {"boom"}

\* the dictionaries handed to the store: any keys, any values
StoreDicts ==
  UNION { { d \in [K -> UNION {StoreValues(k) : k \in StoreKeys}] :
              \A k \in K : d[k] \in StoreValues(k) } : K \in SUBSET StoreKeys }

StoreInit ==
  /\ tasks = EmptyDict
  /\ call = [phase |-> "store", op |-> "none", task_id |-> NoId, arg |-> EmptyDict,
             before |-> EmptyDict]
  /\ agents_ok = TRUE /\ uploads = EmptyDict /\ routes = EmptyDict
  /\ job = EmptyDict /\ returned = {} /\ touched = {}
  /\ resp = [op |-> "none", id |-> NoId, code |-> 0]
  /\ cost = Unused /\ rank = Unused /\ flow = Unused

StoreFrame == UNCHANGED <<agents_ok, uploads, routes, job, returned, resp, touched, cost, rank, flow>>

\* task_storage.create_task(task_id, task_data)
create_task_call ==
  /\ call.phase = "store"
  /\ \E task_id \in TaskIds, task_data \in StoreDicts \ {EmptyDict} :
       /\ tasks' = create_task(tasks, task_id, task_data)
       /\ call' = [phase |-> "store", op |-> "create_task", task_id |-> task_id,
                   arg |-> task_data, before |-> tasks]
  /\ StoreFrame

\* task_storage.update_task(task_id, updates)
update_task_call ==
  /\ call.phase = "store"
  /\ \E task_id \in TaskIds, updates \in StoreDicts :
       /\ tasks' = update_task(tasks, task_id, updates)
       /\ call' = [phase |-> "store", op |-> "update_task", task_id |-> task_id,
                   arg |-> updates, before |-> tasks]
  /\ StoreFrame

StoreNext == create_task_call \/ update_task_call

StoreSpec == StoreInit /\ [][StoreNext]_vars

\* C11: update_task on a stored task sets exactly the keys of the update and leaves the
\* task's other keys and every other task as they were; on an unknown task id it changes
\* nothing and creates no task.
C11_UpdateIsMerge ==
  (call.phase = "store" /\ call.op = "update_task") =>
    IF call.task_id \in DOMAIN call.before
      THEN /\ DOMAIN tasks = DOMAIN call.before
           /\ \A t \in DOMAIN tasks \ {call.task_id} : tasks[t] = call.before[t]
           /\ DOMAIN tasks[call.task_id]
                = DOMAIN call.before[call.task_id] \cup DOMAIN call.arg
           /\ \A k \in DOMAIN call.arg : tasks[call.task_id][k] = call.arg[k]
           /\ \A k \in DOMAIN call.before[call.task_id] \ DOMAIN call.arg :
                tasks[call.task_id][k] = call.before[call.task_id][k]
      ELSE tasks = call.before /\ call.task_id \notin DOMAIN tasks

\* an update that overwrites one key and adds another, with a second task stored
C11_Witness ==
  /\ call.phase = "store" /\ call.op = "update_task"
  /\ call.task_id \in DOMAIN call.before
  /\ DOMAIN tasks = TaskIds
  /\ \E k \in DOMAIN call.arg :
       k \in DOMAIN call.before[call.task_id] /\ call.before[call.task_id][k] # call.arg[k]
  /\ \E k \in DOMAIN call.arg : k \notin DOMAIN call.before[call.task_id]
  /\ \E k \in DOMAIN call.before[call.task_id] : k \notin DOMAIN call.arg

(* ------------------- further claims about the service ----------------- *)
\* C12: no request and no background step removes an entry of the task store, the route
\* store or the upload store.
C12_StoresOnlyGrow ==
  [][/\ DOMAIN tasks \subseteq DOMAIN tasks'
     /\ DOMAIN routes \subseteq DOMAIN routes'
     /\ DOMAIN uploads \subseteq DOMAIN uploads']_vars

C12_Witness ==
  /\ DOMAIN tasks = TaskIds
  /\ Cardinality(DOMAIN uploads) = 2
  /\ Cardinality(DOMAIN routes) = 2
  /\ \E r \in DOMAIN routes : routes[r].status = "rejected"
  /\ \A t \in DOMAIN tasks : tasks[t].status = "completed"

\* C13: when the route planning agent raises after the information agent completed, the
\* failed task record still holds the info_analysis written at step
\* information_agent_complete and has no result, and the step that records the failure
\* leaves the route store as it was.
C13_FailureKeepsEarlierWrites ==
  /\ [](\A j \in DOMAIN job :
          (job[j].pc = "done" /\ job[j].escaped = "route agent error" /\ job[j].enable_scenario)
            => /\ tasks[j].status = "failed"
               /\ "info_analysis" \in DOMAIN tasks[j]
               /\ tasks[j].info_analysis = job[j].info_result
               /\ tasks[j].info_analysis # NoResult
               /\ "result" \notin DOMAIN tasks[j])
  /\ [][\A j \in DOMAIN job :
          (job[j].escaped = "none" /\ job'[j].escaped # "none") => routes' = routes]_vars

C13_Witness ==
  \E j \in DOMAIN job :
    /\ job[j].pc = "done" /\ job[j].escaped = "route agent error" /\ job[j].enable_scenario
    /\ "fallback_mock_data" \in tasks[j].info_analysis.disruption_data
    /\ routes # EmptyDict

RouteStatuses == {"pending_approval", "approved", "rejected"}
RouteOps == {"get_route", "approve_route", "get_route_visualization"}

\* this step answered a request of one of the kinds ops
Answered(ops) == resp'.op \in ops /\ (resp.op # resp'.op \/ resp' # resp)

\* C14: an approval request on a stored route sets that route's status to approved or
\* rejected as the request says, whatever the status was, and changes no other route; a
\* stored route's status is always pending_approval, approved or rejected.
C14_ApproveSetsStatus ==
  /\ [](\A r \in DOMAIN routes : routes[r].status \in RouteStatuses)
  /\ [][(Answered({"approve_route"}) /\ resp'.id \in DOMAIN routes)
          => /\ resp'.code = 200
             /\ resp'.status \in {"approved", "rejected"}
             /\ DOMAIN routes' = DOMAIN routes
             /\ routes'[resp'.id] = [routes[resp'.id] EXCEPT !.status = resp'.status]
             /\ \A r \in DOMAIN routes \ {resp'.id} : routes'[r] = routes[r]]_vars

C14_Witness ==
  /\ resp.op = "approve_route" /\ resp.code = 200 /\ resp.status = "rejected"
  /\ routes[resp.id].status = "rejected"
  /\ \E r \in DOMAIN routes : routes[r].status = "approved"

\* C15: a request for a task id or a route id that is not stored is answered 404 and
\* leaves the task, route and upload stores unchanged.
C15_UnknownIdIs404 ==
  [][(\/ Answered({"get_task"}) /\ resp'.id \notin DOMAIN tasks
      \/ Answered(RouteOps) /\ resp'.id \notin DOMAIN routes)
       => /\ resp'.code = 404
          /\ tasks' = tasks /\ routes' = routes /\ uploads' = uploads]_vars

\* an unknown route is asked for while routes and tasks are stored
C15_Witness ==
  /\ resp.op = "approve_route" /\ resp.code = 404
  /\ resp.id \notin DOMAIN routes
  /\ routes # EmptyDict
  /\ \E t \in DOMAIN tasks : tasks[t].status = "completed"

\* C20: a task's status is processing, completed or failed; it has a result exactly when
\* it is completed, progress 100 exactly when it is completed, and an error exactly when
\* it is failed.
C20_StatusDeterminesFields ==
  \A t \in DOMAIN tasks :
    /\ tasks[t].status \in {"processing", "completed", "failed"}
    /\ ("result" \in DOMAIN tasks[t]) <=> (tasks[t].status = "completed")
    /\ (tasks[t].progress = 100) <=> (tasks[t].status = "completed")
    /\ ("error" \in DOMAIN tasks[t]) <=> (tasks[t].status = "failed")

C20_Witness ==
  /\ \E t \in DOMAIN tasks : tasks[t].status = "completed" /\ tasks[t].progress = 100
  /\ \E t \in DOMAIN tasks : tasks[t].status = "failed" /\ tasks[t].progress = 0
                              /\ "info_analysis" \in DOMAIN tasks[t]

\* C19: with every job scheduled fairly and every agent call returning or raising, each
\* task created by an upload eventually has status completed or failed, whatever other
\* uploads and polls happen meanwhile.
C19_TaskLeavesProcessing ==
  \A t \in TaskIds : [](t \in DOMAIN tasks => <>(t \in DOMAIN tasks /\ tasks[t].status \in Terminal))

C19_Witness ==
  /\ DOMAIN tasks = TaskIds
  /\ \A t \in TaskIds : tasks[t].status \in Terminal
  /\ \E t \in TaskIds : tasks[t].status = "failed" /\ job[t].escaped = "information agent error"
  /\ resp.op = "get_task" /\ resp.code = 200

(* ------------- further claims about optimize_route_selection ---------- *)
\* twice the distance between x and the fraction num / den, and den itself, compared:
\* x is num / den rounded to the nearest integer
IsRounded(x, num, den) ==
  LET diff == x * den - num IN 2 * (IF diff < 0 THEN -diff ELSE diff) <= den

\* C16: for every ranked route composite_score is 0.35 * cost_score + 0.25 * (1 -
\* risk_score) + 0.20 * time_score + 0.20 * reliability_score, rounded to three decimals,
\* with cost_score the min-max normalisation of total_cost over the input (1 for the
\* cheapest, 0 for the dearest, 1 for all when all costs are equal); the weights add up
\* to 1 and the score lies between 0 and 1 for risk scores between 0 and 1.
C16_CompositeIsWeightedSum ==
  /\ Weights.cost + Weights.risk + Weights.time + Weights.reliability = 1000
  /\ Ranked =>
       LET items == rank.input.items
           costs == {items[i].fields.total_cost : i \in 1 .. Len(items)}
           hi == MaxOf(costs)
           lo == MinOf(costs)
       IN \A i \in 1 .. Len(rank.output.optimized_routes) :
            LET r == rank.output.optimized_routes[i]
                others == 250 * (1000 - 100 * r.risk_score) + 200 * r.time_score
                            + 200 * r.reliability_score
            IN /\ IF hi = lo
                    THEN /\ r.cost_score = 1000
                         /\ IsRounded(r.composite_score, 350 * 1000 + others, 1000)
                    ELSE /\ IsRounded(r.cost_score, 1000 * (hi - r.total_cost), hi - lo)
                         /\ r.total_cost = lo => r.cost_score = 1000
                         /\ r.total_cost = hi => r.cost_score = 0
                         /\ IsRounded(r.composite_score,
                                      350 * 1000 * (hi - r.total_cost) + others * (hi - lo),
                                      1000 * (hi - lo))
               /\ r.composite_score >= 0 /\ r.composite_score <= 1000

\* a route whose cost lies strictly between the cheapest and the dearest
C16_Witness ==
  /\ Ranked
  /\ \E i \in 1 .. Len(rank.output.optimized_routes) :
       LET r == rank.output.optimized_routes[i]
       IN r.cost_score = 667 /\ r.risk_score = 5 /\ r.composite_score > 0

(* ------ tools/route_planning_tools.py: calculate_route_distance ------- *)
\* Coordinates are whole degrees. Angles are radians and trigonometric values are
\* numbers in ten-thousandths, computed in fixed point; like the floating-point
\* operations they stand for, every operation gives -r for the negated argument when it
\* gives r for the argument. Distances are hundredths of a kilometre and are good to a
\* few kilometres.
Div0(a, b) == IF a < 0 THEN -((-a) \div b) ELSE a \div b

\* math.radians
Radians(deg) == Div0(deg * 314159, 1800)

\* sin on [0, pi/2] by its series up to x^9
SinSeries(x) ==
  LET x2 == (x * x) \div 10000
      t3 == ((x * x2) \div 10000) \div 6
      t5 == ((t3 * x2) \div 10000) \div 20
      t7 == ((t5 * x2) \div 10000) \div 42
      t9 == ((t7 * x2) \div 10000) \div 72
      v == x - t3 + t5 - t7 + t9
  IN IF v > 10000 THEN 10000 ELSE v

\* math.sin on [-pi, pi]
Sin(x) ==
  LET y == IF x < 0 THEN -x ELSE x
      z == IF y > 15708 THEN 31416 - y ELSE y
      v == SinSeries(IF z < 0 THEN 0 ELSE z)
  IN IF x < 0 THEN -v ELSE v

\* math.cos on [-pi/2, pi/2]
Cos(x) == Sin(15708 - (IF x < 0 THEN -x ELSE x))

Square(v) == (v * v) \div 10000

\* math.sqrt of a value in [0, 1]: the largest r with r * r <= 10000 * v
RECURSIVE SqrtBetween(_, _, _)
SqrtBetween(n, lo, hi) ==
  IF hi - lo <= 1 THEN lo
  ELSE LET mid == (lo + hi) \div 2
       IN IF mid * mid <= n THEN SqrtBetween(n, mid, hi) ELSE SqrtBetween(n, lo, mid)

Sqrt(v) == SqrtBetween(10000 * v, 0, 10001)

\* math.asin on [0, 1]: the largest angle in [0, pi/2] whose sine is at most v
RECURSIVE AsinBetween(_, _, _)
AsinBetween(v, lo, hi) ==
  IF hi - lo <= 1 THEN lo
  ELSE LET mid == (lo + hi) \div 2
       IN IF SinSeries(mid) <= v THEN AsinBetween(v, mid, hi) ELSE AsinBetween(v, lo, mid)

Asin(v) == AsinBetween(v, 0, 15709)

haversine_origin_cos(lat1, lng1, lat2, lng2) ==
  Square(Sin(Div0(lat2 - lat1, 2)))
    + Div0(Div0(Cos(lat1) * Cos(lat1), 10000) * Square(Sin(Div0(lng2 - lng1, 2))), 10000)

haversine_cos_term(lat1, lng1, lat2, lng2) ==
  Square(Sin(Div0(lat2 - lat1, 2)))
    + Div0(Div0(Cos(lat1) * Cos(lat2), 10000) * Square(Cos(Div0(lng2 - lng1, 2))), 10000)

\* a = sin(dlat/2)**2 + cos(lat1) * cos(lat2) * sin(dlng/2)**2, arguments in radians
Haversine(lat1, lng1, lat2, lng2) ==
  Square(Sin(Div0(lat2 - lat1, 2)))
    + Div0(Div0(Cos(lat1) * Cos(lat2), 10000) * Square(Sin(Div0(lng2 - lng1, 2))), 10000)

\* calculate_route_distance; raised is the ValueError of math.sqrt or math.asin for a
\* value outside [0, 1]
calculate_route_distance(origin_lat, origin_lng, dest_lat, dest_lng) ==
  LET a == Haversine(Radians(origin_lat), Radians(origin_lng),
                     Radians(dest_lat), Radians(dest_lng))
      c == 2 * Asin(Sqrt(a))
      distance == (c * 6371) \div 100
  IN IF a < 0 \/ a > 10000
       THEN [raised |-> TRUE, distance_km |-> 0, distance_miles |-> 0,
             optimal_transport_mode |-> "none", is_long_haul |-> FALSE,
             coordinates |-> [origin |-> [lat |-> origin_lat, lng |-> origin_lng],
                              destination |-> [lat |-> dest_lat, lng |-> dest_lng]]]
       ELSE [raised |-> FALSE,
             distance_km |-> distance,
             distance_miles |-> (distance * 621) \div 1000 + (distance * 371) \div 1000000,
             optimal_transport_mode |-> IF distance < 50000 THEN "land"
                                        ELSE IF distance < 200000 THEN "air"
                                        ELSE "sea",
             is_long_haul |-> distance > 200000,
             coordinates |-> [origin |-> [lat |-> origin_lat, lng |-> origin_lng],
                              destination |-> [lat |-> dest_lat, lng |-> dest_lng]]]

Latitudes == {-90, -45, 0, 30, 32, 45, 90}
Longitudes == {-180, -75, 0, 45, 47, 180}
GeoPoints == [lat : Latitudes, lng : Longitudes]

DistInit ==
  /\ call \in [phase : {"distance"}, origin : GeoPoints, dest : GeoPoints, results : {<< >>}]
  /\ agents_ok = TRUE /\ tasks = EmptyDict /\ uploads = EmptyDict /\ routes = EmptyDict
  /\ job = EmptyDict /\ returned = {} /\ touched = {}
  /\ resp = [op |-> "none", id |-> NoId, code |-> 0]
  /\ cost = Unused /\ rank = Unused /\ flow = Unused

\* the distance from origin to dest, then the distance from dest to origin
distance_call ==
  /\ call.phase = "distance"
  /\ Len(call.results) < 2
  /\ LET o == IF call.results = << >> THEN call.origin ELSE call.dest
         d == IF call.results = << >> THEN call.dest ELSE call.origin
     IN call' = [call EXCEPT !.results =
                   Append(@, calculate_route_distance(o.lat, o.lng, d.lat, d.lng))]
  /\ UNCHANGED <<svcVars, cost, rank, flow>>

DistNext == distance_call

DistSpec == DistInit /\ [][DistNext]_vars

\* C17: swapping origin and destination gives the same distance_km, the same
\* optimal_transport_mode and the same is_long_haul.
C17_DistanceSymmetric ==
  (call.phase = "distance" /\ Len(call.results) = 2) =>
    /\ call.results[1].raised = call.results[2].raised
    /\ call.results[1].distance_km = call.results[2].distance_km
    /\ call.results[1].distance_miles = call.results[2].distance_miles
    /\ call.results[1].optimal_transport_mode = call.results[2].optimal_transport_mode
    /\ call.results[1].is_long_haul = call.results[2].is_long_haul

C17_Witness ==
  /\ call.phase = "distance" /\ Len(call.results) = 2
  /\ call.origin.lat # call.dest.lat /\ call.origin.lng # call.dest.lng
  /\ call.origin.lat # -call.dest.lat
  /\ call.results[2].optimal_transport_mode = "air"
  /\ call.results[2].distance_km > 0

\* C18: the distance from a point to itself is 0, at every latitude and longitude, with
\* optimal_transport_mode land and is_long_haul false.
C18_SelfDistanceZero ==
  (call.phase = "distance" /\ call.results # << >> /\ call.origin = call.dest) =>
    /\ ~call.results[1].raised
    /\ call.results[1].distance_km = 0
    /\ call.results[1].optimal_transport_mode = "land"
    /\ ~call.results[1].is_long_haul

C18_Witness ==
  /\ call.phase = "distance" /\ call.results # << >>
  /\ call.origin = call.dest
  /\ call.origin.lat = -45 /\ call.origin.lng = 180
  /\ call.results[1].distance_km = 0

(* ------------------ further claims about the agent graphs ------------- *)
InfoRun == FlowRun /\ flow.agent = "information"

DataGathered(f) == f.domain >= 1 /\ f.disruption >= 1 /\ f.risk

\* C21: the information graph enters finalize_analysis, and ends with analysis_complete
\* set, only in a state with a domain-knowledge item, a disruption item and a non-empty
\* risk assessment; in every other state check_completion leads back to react_agent.
C21_FinalizeOnlyWhenGathered ==
  [][InfoRun =>
       /\ flow'.node = "finalize_analysis" => DataGathered(flow')
       /\ flow'.status = "finalized" => DataGathered(flow')
       /\ flow'.complete => (DataGathered(flow') /\ flow.node = "finalize_analysis")
       /\ (flow.node = "check_completion" /\ flow'.steps = flow.steps + 1 /\ ~DataGathered(flow))
            => (flow'.node = "react_agent" /\ flow'.status = "running" /\ ~DataGathered(flow'))
       /\ (flow.node = "check_completion" /\ flow'.steps = flow.steps + 1 /\ DataGathered(flow))
            => flow'.node = "finalize_analysis"]_vars

C21_Witness ==
  /\ InfoRun /\ flow.prev = "check_completion" /\ flow.node = "react_agent"
  /\ flow.domain >= 1 /\ flow.disruption >= 1 /\ ~flow.risk

\* C22, as stated: the information graph goes from react_agent to check_completion only
\* when the last message has no tool calls and its text holds a completion phrase; after
\* every other answer of the agent, whatever data is gathered, it re-enters react_agent.
C22_CheckOnlyOnPhrase ==
  [][(InfoRun /\ flow.node = "react_agent" /\ flow'.steps = flow.steps + 1
        /\ flow'.error # "Exception") =>
       /\ flow'.node = "check_completion" => flow'.last = "phrase"
       /\ flow'.last # "phrase" => (flow'.node = "react_agent" /\ flow'.status = "running")]_vars

(* ------------- claims about the order of the job's steps -------------- *)
InRouteAgent(rec) == rec.pc \in {"route_stream", "route_end"}

\* C23: optimize_routes is called only after the information step: with
\* enable_scenario the information agent has returned and its result is on the task as
\* info_analysis; without it the information agent is never run and the route agent is
\* given the default analysis (overall_risk low, no knowledge, no disruptions).
C23_RouteAgentAfterInformation ==
  /\ [](\A j \in DOMAIN job :
          /\ (job[j].enable_scenario /\ InRouteAgent(job[j])) =>
               /\ "info_analysis" \in DOMAIN tasks[j]
               /\ tasks[j].info_analysis = job[j].info_result
               /\ job[j].info_result # NoResult
          /\ ~job[j].enable_scenario =>
               /\ job[j].pc \notin {"info_stream", "info_end"}
               /\ "info_analysis" \notin DOMAIN tasks[j]
               /\ InRouteAgent(job[j]) =>
                    /\ job[j].info_result.risk_assessment.overall_risk = "low"
                    /\ job[j].info_result.domain_knowledge = {}
                    /\ job[j].info_result.disruption_data = {})
  /\ [][\A j \in DOMAIN job :
          (job'[j].pc = "route_stream" /\ job[j].pc # "route_stream") =>
            job[j].pc = IF job[j].enable_scenario THEN "info_end" ELSE "scheduled"]_vars

C23_Witness ==
  \E j, k \in DOMAIN job :
    /\ job[j].enable_scenario /\ job[j].pc = "route_stream"
    /\ tasks[j].info_analysis.disruption_data # {}
    /\ ~job[k].enable_scenario /\ job[k].pc = "route_stream"
    /\ job[k].info_result = DefaultInfo

RouteRun == FlowRun /\ flow.agent = "route"

\* C24, as stated: with zero device forecasts the route graph goes to check_routes and
\* finalize_routes after its first react_agent step, builds no candidate route, and
\* returns no optimized and no recommended route (routes_generated 0,
\* recommended_routes 0).
C24_NoForecastNoRoutes ==
  (RouteRun /\ flow.forecasts = 0) =>
    /\ flow.cand = 0
    /\ (flow.steps = 1 /\ flow.status = "running") => flow.node = "check_routes"
    /\ (flow.steps = 2 /\ flow.status = "running") => flow.node = "finalize_routes"
    /\ flow.status = "finalized" =>
         (flow.steps = 3 /\ flow.opt = 0 /\ flow.recommended = {})

\* C24, amended: with zero device forecasts the route graph goes to check_routes and
\* finalize_routes after a first react_agent step that returns, and builds no candidate
\* route; it returns the ranking the agent got from optimize_route_selection in that
\* step, with its first three routes recommended, and no route when there was none.
C24_NoForecastNoCandidates ==
  (RouteRun /\ flow.forecasts = 0) =>
    /\ flow.cand = 0
    /\ (flow.steps = 1 /\ flow.status = "running") => flow.node = "check_routes"
    /\ (flow.steps = 2 /\ flow.status = "running") => flow.node = "finalize_routes"
    /\ flow.status \in {"running", "finalized", "raised"}
    /\ flow.status = "raised" => (flow.steps = 1 /\ flow.error = "Exception")
    /\ flow.status = "finalized" =>
         /\ flow.steps = 3 /\ flow.complete
         /\ flow.how \in {"none", "tool"}
         /\ flow.how = "none" <=> flow.opt = 0
         /\ flow.analyzed = flow.opt
         /\ Cardinality(flow.recommended) = Min2(TopN, flow.opt)

C24_Witness ==
  /\ RouteRun /\ flow.forecasts = 0 /\ flow.status = "finalized"
  /\ flow.nd > 0 /\ flow.nc > 0 /\ flow.cand = 0
  /\ flow.how = "tool" /\ flow.opt = 4 /\ flow.recommended = {1, 2, 3}

\* C25: the candidate routes in the state number min(forecasts, distance results, cost
\* results) when that is positive; otherwise one combined route when there are forecasts
\* and a distance or a cost result, and none otherwise. So there are never more
\* candidates than forecasts, and a step never empties the candidate list.
C25_CandidateCount ==
  /\ [](RouteRun =>
          /\ (flow.forecasts >= 1 /\ flow.nd >= 1 /\ flow.nc >= 1) =>
               /\ flow.cand \in {flow.forecasts, flow.nd, flow.nc}
               /\ flow.cand <= flow.nd /\ flow.cand <= flow.nc
          /\ (flow.forecasts >= 1 /\ (flow.nd = 0 \/ flow.nc = 0) /\ flow.nd + flow.nc >= 1) =>
               flow.cand = 1
          /\ (flow.forecasts = 0 \/ flow.nd + flow.nc = 0) => flow.cand = 0
          /\ flow.cand <= flow.forecasts)
  /\ [][RouteRun => flow'.cand >= flow.cand]_vars

C25_Witness ==
  /\ RouteRun /\ flow.prev = "check_routes" /\ flow.node = "react_agent"
  /\ flow.forecasts = 4 /\ flow.nd = 3 /\ flow.nc = 2 /\ flow.cand = 2

\* C26: after finalize_routes processing_complete is set; with a candidate in the state
\* optimized_routes is not empty (the final ranking, or the candidates when the ranking
\* returned an error or raised); the recommended routes are the first min(3, n) of the n
\* optimized routes and total_routes_analyzed is n.
C26_FinalizeRecommendsTopThree ==
  (RouteRun /\ flow.prev = "finalize_routes") =>
    /\ flow.complete /\ flow.status = "finalized"
    /\ flow.cand >= 1 => flow.opt >= 1
    /\ flow.how \in {"ranked", "error", "raised"} => flow.opt = flow.cand
    /\ flow.recommended = 1 .. (IF flow.opt < 3 THEN flow.opt ELSE 3)
    /\ flow.analyzed = flow.opt

C26_Witness ==
  /\ RouteRun /\ flow.prev = "finalize_routes"
  /\ flow.cand = 2 /\ flow.how = "raised" /\ flow.opt = 2 /\ flow.recommended = {1, 2}

(* ------ main.py 375-403: storing what the route agent returned -------- *)
\* One job at the point where optimize_routes has returned a list of up to MaxReturned
\* routes, each of which OptimizedRoute.from_dict accepts or rejects.
MaxReturned == 3

ReturnedLists == UNION {[1 .. n -> [ok : BOOLEAN]] : n \in 0 .. MaxReturned}

ReturnInit ==
  /\ agents_ok = TRUE
  /\ \E ud \in UploadInputs, rl \in ReturnedLists :
       /\ uploads = store_upload(EmptyDict, UploadIdOf("t1"),
                      [id |-> UploadIdOf("t1"), data |-> ud, uploaded_at |-> "ts",
                       status |-> "processing", scenario_enabled |-> FALSE])
       /\ tasks = update_task(
                    create_task(EmptyDict, "t1",
                      [task_id |-> "t1", upload_id |-> UploadIdOf("t1"),
                       status |-> "processing", progress |-> 10,
                       current_step |-> "upload_received", created_at |-> "ts",
                       upload_data |-> ud, scenario_enabled |-> FALSE]),
                    "t1",
                    [current_step |-> "route_agent_optimization_complete", progress |-> 90])
       /\ job = Put(EmptyDict, "t1",
                    [task_id |-> "t1", upload_data |-> ud, enable_scenario |-> FALSE,
                     pc |-> "route_end", next |-> "none", loops |-> 0,
                     sources |-> {}, gathered |-> FALSE,
                     raised |-> {}, escaped |-> "none",
                     info_result |-> DefaultInfo,
                     route_result |-> RouteResult("t1", rl)])
  /\ routes = EmptyDict
  /\ returned = {"t1"}
  /\ touched = {}
  /\ resp = [op |-> "none", id |-> NoId, code |-> 0]
  /\ cost = Unused /\ rank = Unused /\ flow = Unused /\ call = Unused

ReturnNext ==
  \/ \E j \in DOMAIN job : route_return(j)
  \/ get_task_status
  \/ get_route
  \/ approve_route

ReturnSpec == ReturnInit /\ [][ReturnNext]_vars

Returned(j) == job[j].route_result.optimized_routes

\* C27: a returned route that OptimizedRoute.from_dict rejects is skipped and does not
\* fail the task: every other returned route is stored, the task ends completed, and
\* routes_generated counts all returned routes, stored or not.
C27_RejectedRouteIsSkipped ==
  \A j \in DOMAIN job :
    job[j].pc = "done" =>
      /\ tasks[j].status = "completed"
      /\ "error" \notin DOMAIN tasks[j]
      /\ tasks[j].result.routes_generated = Len(Returned(j))
      /\ \A i \in 1 .. Len(Returned(j)) :
           Returned(j)[i].ok <=> Returned(j)[i].id \in DOMAIN routes
      /\ Cardinality(DOMAIN routes) <= tasks[j].result.routes_generated

C27_Witness ==
  \E j \in DOMAIN job :
    /\ job[j].pc = "done" /\ tasks[j].status = "completed"
    /\ Len(Returned(j)) = 3
    /\ ~Returned(j)[1].ok /\ ~Returned(j)[2].ok /\ Returned(j)[3].ok
    /\ tasks[j].result.routes_generated = 3
    /\ Cardinality(DOMAIN routes) = 1

(* ---------- claims about the result of optimize_route_selection ------- *)
\* C28: optimized_routes is in order of non-increasing composite_score, the
\* optimization_rank values are 1..n in list order, a route is flagged recommended
\* exactly when its rank is at most 3, and best_route_id is the id of the rank-1 route.
C28_RankedInOrder ==
  Ranked =>
    LET o == rank.output.optimized_routes
    IN /\ Len(o) >= 1
       /\ \A i \in 1 .. Len(o) :
            /\ o[i].optimization_rank = i
            /\ o[i].recommended <=> o[i].optimization_rank <= 3
            /\ i < Len(o) => o[i].composite_score >= o[i + 1].composite_score
       /\ rank.output.best_route_id = o[1].id

C28_Witness ==
  /\ Ranked
  /\ LET o == rank.output.optimized_routes
     IN /\ Len(o) = 4
        /\ o[1].composite_score > o[2].composite_score
        /\ o[3].composite_score > o[4].composite_score
        /\ o[1].id = 4 /\ rank.output.best_route_id = 4
        /\ ~o[4].recommended

\* C29: invalid input is reported as a value, not as an exception: {'error': ...} for
\* text that is not JSON, and for JSON that is not a list or is an empty list; no ranking
\* is produced in either case.
C29_InvalidInputIsAnErrorValue ==
  (rank.phase = "returned" /\ (rank.input.json # "array" \/ rank.input.items = << >>)) =>
    /\ ~rank.output.raised
    /\ rank.output.error # ""
    /\ rank.input.json = "invalid" <=>
         rank.output.error = "Invalid JSON format for candidate routes"
    /\ rank.output.optimized_routes = << >>
    /\ rank.output.recommended_routes = << >>

C29_Witness ==
  /\ rank.phase = "returned" /\ rank.input.json = "array" /\ rank.input.items = << >>
  /\ rank.output.error = "No candidate routes provided"

\* C30, as stated: for every non-empty list, entries that are not dictionaries are
\* skipped and the routes that remain are ranked, also when the list mixes dictionaries
\* with other values or holds no dictionary at all.
C30_NonDictionariesAreSkipped ==
  (/\ rank.phase = "returned" /\ rank.input.json = "array" /\ rank.input.items # << >>
   /\ \A i \in 1 .. Len(rank.input.items) :
        IsDict(rank.input.items[i]) => "total_cost" \in DOMAIN rank.input.items[i].fields) =>
    /\ ~rank.output.raised
    /\ rank.output.error = ""
    /\ {rank.output.optimized_routes[k].id : k \in 1 .. Len(rank.output.optimized_routes)}
         = {i \in 1 .. Len(rank.input.items) : IsDict(rank.input.items[i])}

(* ---- tools: generate_route_waypoints and analyze_supply_chain_risks ---- *)
\* The two tools called on their own. A JSON text is a record with the type of the value
\* it holds in the field json ("invalid" when it does not parse); an object carries its
\* members in fields. Distances are hundredths of a kilometre, as in
\* calculate_route_distance.
final_order_fixed(waypoints) == 2

\* final_order = len(waypoints) + 1
final_order(waypoints) == Len(waypoints) + 1

generate_route_waypoints(origin_location, destination_location, transport_mode) ==
  LET Failure(raised, msg) ==
        [raised |-> raised, error |-> msg, route_waypoints |-> << >>, total_waypoints |-> 0,
         estimated_duration_days |-> 0, transport_mode |-> transport_mode,
         total_distance_km |-> 0, route_type |-> "none", intermediate_stops |-> 0]
      Coord(f, k) == IF k \in DOMAIN f THEN f[k] ELSE 0
  IN IF origin_location.json = "invalid" \/ destination_location.json = "invalid"
       THEN Failure(FALSE, "Invalid location data format")
     ELSE IF ~IsDict(origin_location) \/ ~IsDict(destination_location)
       THEN Failure(TRUE, "AttributeError")
     ELSE
       LET origin == origin_location.fields
           destination == destination_location.fields
           distance_calc == calculate_route_distance(Coord(origin, "lat"), Coord(origin, "lng"),
                                                     Coord(destination, "lat"),
                                                     Coord(destination, "lng"))
           distance == distance_calc.distance_km
           first == << [location |-> origin, order |-> 1, estimated_arrival |-> "None",
                        waypoint_type |-> "origin"] >>
           stops == IF distance > 200000 /\ transport_mode = "sea"
                      THEN << [location |-> [id |-> "HUB_PORT"], order |-> 2,
                               estimated_arrival |-> "Day 2",
                               waypoint_type |-> "intermediate_port"] >>
                    ELSE IF distance > 200000 /\ transport_mode = "air"
                      THEN << [location |-> [id |-> "HUB_AIR"], order |-> 2,
                               estimated_arrival |-> "Day 1",
                               waypoint_type |-> "intermediate_hub"] >>
                    ELSE << >>
           waypoints == Append(first \o stops,
                               [location |-> destination,
                                order |-> final_order(first \o stops),
                                estimated_arrival |-> IF transport_mode = "sea" THEN "Day 3"
                                                      ELSE IF transport_mode = "air" THEN "Day 2"
                                                      ELSE "Day 4",
                                waypoint_type |-> "destination"])
           factor10 == CASE transport_mode = "air" -> 1 [] transport_mode = "sea" -> 10
                         [] transport_mode = "land" -> 5 [] transport_mode = "rail" -> 3
                         [] OTHER -> 5
       IN IF distance_calc.raised THEN Failure(TRUE, "ValueError")
          ELSE [raised |-> FALSE, error |-> "",
                route_waypoints |-> waypoints,
                total_waypoints |-> Len(waypoints),
                estimated_duration_days |-> Max2(1, (distance * factor10) \div 500000),
                transport_mode |-> transport_mode,
                total_distance_km |-> distance,
                route_type |-> IF distance > 200000 THEN "long_haul" ELSE "regional",
                intermediate_stops |-> Len(waypoints) - 2]

\* analyze_supply_chain_risks. risk_score is kept in hundredths. The content of a
\* knowledge entry is a sequence of words.
MaxMedium == 7

risk_level_one_medium(high_risks, medium_risks, low_risks) ==
  IF high_risks > 0
    THEN [overall_risk |-> "high", risk_score |-> Min2(80 + high_risks * 10, 100)]
  ELSE IF medium_risks > 0
    THEN [overall_risk |-> "medium", risk_score |-> 40 + medium_risks * 10]
  ELSE [overall_risk |-> "low", risk_score |-> 10 + low_risks * 5]

\* if high_risks > 0: ... elif medium_risks > 1: ... else: ...
risk_level(high_risks, medium_risks, low_risks) ==
  IF high_risks > 0
    THEN [overall_risk |-> "high", risk_score |-> Min2(80 + high_risks * 10, 100)]
  ELSE IF medium_risks > 1
    THEN [overall_risk |-> "medium", risk_score |-> 40 + medium_risks * 10]
  ELSE [overall_risk |-> "low", risk_score |-> 10 + low_risks * 5]

analyze_supply_chain_risks(domain_knowledge, disruption_data) ==
  LET parsed == domain_knowledge.json # "invalid" /\ disruption_data.json # "invalid"
      Items(v) == IF parsed /\ v.json = "array" THEN v.items ELSE << >>
      LowerWord(w) == IF w \in {"Risk", "RISK"} THEN "risk" ELSE w
      MentionsRisk(k) ==
        /\ IsDict(k)
        /\ "content" \in DOMAIN k.fields
        /\ \E i \in DOMAIN k.fields.content : LowerWord(k.fields.content[i]) = "risk"
      disruptions == SelectSeq(Items(disruption_data), IsDict)
      knowledge == SelectSeq(Items(domain_knowledge), MentionsRisk)
      risk_factors ==
        [i \in 1 .. Len(disruptions) |->
           [type |-> "operational_disruption",
            severity |-> IF "impact_level" \in DOMAIN disruptions[i].fields
                           THEN disruptions[i].fields.impact_level ELSE "medium"]]
        \o [i \in 1 .. Len(knowledge) |->
              [type |-> "strategic_consideration", severity |-> "low"]]
      Count(s) == Cardinality({i \in DOMAIN risk_factors : risk_factors[i].severity = s})
      level == risk_level(Count("high"), Count("medium"), Count("low"))
  IN IF parsed /\ (domain_knowledge.json = "null" \/ disruption_data.json = "null")
       THEN [raised |-> TRUE, overall_risk |-> "none", risk_score |-> 0,
             risk_factors |-> << >>, total_factors_analyzed |-> 0]
     ELSE [raised |-> FALSE, overall_risk |-> level.overall_risk,
           risk_score |-> level.risk_score, risk_factors |-> risk_factors,
           total_factors_analyzed |-> Len(risk_factors)]

\* "risk_score": min(0.2 + (risk_multiplier - 1.0), 1.0) of a candidate route
route_risk_score(risk_assessment) ==
  LET risk_multiplier == 100 + (IF "risk_score" \in DOMAIN risk_assessment
                                  THEN risk_assessment.risk_score ELSE 20)
  IN Min2(20 + (risk_multiplier - 100), 100)

Rep(item, n) == [i \in 1 .. n |-> item]

\* disruption lists: entries of high, medium, unstated and unknown impact and an entry
\* that is not an object
DisruptionJsons ==
  { [json |-> "invalid"], [json |-> "null"] }
  \cup { [json |-> "array",
          items |-> Rep([json |-> "object", fields |-> [impact_level |-> "high"]], h)
                    \o Rep([json |-> "object", fields |-> [impact_level |-> "medium"]], m)
                    \o Rep([json |-> "object", fields |-> [title |-> "strike"]], d)
                    \o Rep([json |-> "object", fields |-> [impact_level |-> "severe"]], s)
                    \o Rep([json |-> "string"], x)] :
           h \in 0 .. 2, m \in 0 .. MaxMedium, d \in 0 .. 1, s \in 0 .. 1, x \in 0 .. 1 }

KnowledgeJsons ==
  { [json |-> "invalid"], [json |-> "null"] }
  \cup { [json |-> "array",
          items |-> Rep([json |-> "object",
                         fields |-> [content |-> <<"Risk", "of", "delay">>]], r)
                    \o Rep([json |-> "object",
                            fields |-> [content |-> <<"port", "capacity">>]], p)
                    \o Rep([json |-> "object", fields |-> [region |-> "asia"]], e)
                    \o Rep([json |-> "string"], x)] :
           r \in 0 .. 2, p \in 0 .. 1, e \in 0 .. 1, x \in 0 .. 1 }

RiskCalls ==
  [phase : {"risks"}, domain : KnowledgeJsons, disruption : DisruptionJsons,
   results : {<< >>}]

risks_call ==
  /\ call.phase = "risks" /\ call.results = << >>
  /\ call' = [call EXCEPT !.results =
                << analyze_supply_chain_risks(call.domain, call.disruption) >>]
  /\ UNCHANGED <<svcVars, cost, rank, flow>>

\* a candidate route built from the risk assessment of an analysis
candidate_route_call ==
  /\ call.phase = "risks" /\ Len(call.results) = 1 /\ ~call.results[1].raised
  /\ \E risk_assessment \in {call.results[1], [overall_risk |-> "unknown"]} :
       call' = [call EXCEPT !.results =
                  Append(@, [risk_score |-> route_risk_score(risk_assessment)])]
  /\ UNCHANGED <<svcVars, cost, rank, flow>>

\* the location texts of a call: unparsable text, a JSON string, locations with
\* coordinates and a location without
LocationJsons ==
  { [json |-> "invalid"], [json |-> "string"],
    [json |-> "object", fields |-> [name |-> "nowhere"]] }
  \cup { [json |-> "object", fields |-> [name |-> "place", lat |-> a, lng |-> b]] :
           a \in {0, 30}, b \in {0, 15, 47} }

WaypointCalls ==
  [phase : {"waypoints"}, origin : LocationJsons, dest : LocationJsons,
   mode : {"sea", "air", "land", "multimodal"}, results : {<< >>}]

ToolInit ==
  /\ call \in WaypointCalls \cup RiskCalls
  /\ agents_ok = TRUE /\ tasks = EmptyDict /\ uploads = EmptyDict /\ routes = EmptyDict
  /\ job = EmptyDict /\ returned = {} /\ touched = {}
  /\ resp = [op |-> "none", id |-> NoId, code |-> 0]
  /\ cost = Unused /\ rank = Unused /\ flow = Unused

waypoints_call ==
  /\ call.phase = "waypoints" /\ call.results = << >>
  /\ call' = [call EXCEPT !.results =
                << generate_route_waypoints(call.origin, call.dest, call.mode) >>]
  /\ UNCHANGED <<svcVars, cost, rank, flow>>

ToolNext ==
  \/ waypoints_call
  \/ risks_call
  \/ candidate_route_call

ToolSpec == ToolInit /\ [][ToolNext]_vars

\* C31: the waypoints start with the origin and end with the destination, their order
\* values are 1..n, there is at most one intermediate stop, and there is one exactly when
\* the distance exceeds 2000 km and the mode is sea or air; intermediate_stops is n - 2,
\* estimated_duration_days is at least 1, and location text that does not parse gives
\* an error value.
C31_WaypointsInOrder ==
  (call.phase = "waypoints" /\ call.results # << >>) =>
    LET r == call.results[1]
        w == r.route_waypoints
        n == Len(w)
    IN /\ (call.origin.json = "invalid" \/ call.dest.json = "invalid") =>
            (~r.raised /\ r.error = "Invalid location data format" /\ w = << >>)
       /\ (~r.raised /\ r.error = "") =>
            /\ n \in {2, 3}
            /\ w[1].location = call.origin.fields /\ w[1].waypoint_type = "origin"
            /\ w[n].location = call.dest.fields /\ w[n].waypoint_type = "destination"
            /\ \A i \in 1 .. n : w[i].order = i
            /\ n = 3 <=> (r.total_distance_km > 200000 /\ call.mode \in {"sea", "air"})
            /\ r.intermediate_stops = n - 2
            /\ r.estimated_duration_days >= 1

C31_Witness ==
  /\ call.phase = "waypoints" /\ call.results # << >>
  /\ call.mode = "air" /\ Len(call.results[1].route_waypoints) = 3
  /\ call.results[1].route_waypoints[3].order = 3
  /\ call.results[1].estimated_duration_days = 1


(* ---- claims about analyze_supply_chain_risks ---- *)
\* C32: overall_risk is 'high' exactly when at least one risk factor has severity high,
\* otherwise 'medium' exactly when at least two factors have severity medium, otherwise
\* 'low'; input that does not parse is treated as empty lists and gives 'low' with no
\* risk factors.
C32_RiskLevelBySeverity ==
  (call.phase = "risks" /\ call.results # << >> /\ ~call.results[1].raised) =>
    LET r == call.results[1]
        f == r.risk_factors
        high == {i \in DOMAIN f : f[i].severity = "high"}
        medium == {i \in DOMAIN f : f[i].severity = "medium"}
    IN /\ r.overall_risk = "high" <=> high # {}
       /\ r.overall_risk = "medium" <=> (high = {} /\ Cardinality(medium) >= 2)
       /\ r.overall_risk = "low" <=> (high = {} /\ Cardinality(medium) < 2)
       /\ (call.domain.json = "invalid" \/ call.disruption.json = "invalid") =>
            (r.overall_risk = "low" /\ f = << >>)

C32_Witness ==
  /\ call.phase = "risks" /\ call.results # << >> /\ ~call.results[1].raised
  /\ call.results[1].overall_risk = "low"
  /\ \E i \in DOMAIN call.results[1].risk_factors :
       call.results[1].risk_factors[i].severity = "medium"
  /\ \E i \in DOMAIN call.results[1].risk_factors :
       call.results[1].risk_factors[i].severity = "low"

\* C33: the risk_score of analyze_supply_chain_risks lies between 0 and 1 for every
\* list of risk factors, and the risk_score of every candidate route built from it lies
\* between 0.2 and 1.0.
C33_RiskScoreInUnitInterval ==
  (call.phase = "risks" /\ call.results # << >> /\ ~call.results[1].raised) =>
    /\ call.results[1].risk_score \in 0 .. 100
    /\ Len(call.results) = 2 => call.results[2].risk_score \in 20 .. 100

\* the part of C33 about candidate routes
C33_RouteRiskInRange ==
  (call.phase = "risks" /\ Len(call.results) = 2) =>
    call.results[2].risk_score \in 20 .. 100


(* ---- information agent: tool results taken from the conversation ---- *)
\* The conversation of the information agent is the sequence of its tool calls, each with
\* the name of the tool and the result found for its id: a list of len entries, an
\* object, or nothing. An item of domain_knowledge or disruption_data is the pair of the
\* call's position and the entry's position in its result.
MaxScans == 2
MaxCalls == 2

ToolCalls ==
  [name : {"search_domain_knowledge", "search_supply_chain_disruptions",
           "analyze_supply_chain_risks"},
   result : {[json |-> "array", len |-> 0], [json |-> "array", len |-> 2],
             [json |-> "object"], [json |-> "none"]}]

update_state_with_tool_result(state, tool_name, tool_result, i) ==
  LET items == IF tool_result.json = "array" THEN [j \in 1 .. tool_result.len |-> <<i, j>>]
               ELSE IF tool_result.json = "object" THEN << <<i, 1>> >>
               ELSE << >>
  IN IF tool_name = "search_domain_knowledge"
       THEN [state EXCEPT !.domain_knowledge = @ \o items]
     ELSE IF tool_name = "search_supply_chain_disruptions"
       THEN [state EXCEPT !.disruption_data = @ \o items]
     ELSE IF tool_result.json = "object"
       THEN [state EXCEPT !.risk_assessment = i]
     ELSE state

RECURSIVE extract_tool_results_from_messages(_, _)
\* for i, message in enumerate(state["messages"]): every message of the conversation
extract_tool_results_from_messages(state, i) ==
  IF i > Len(state.messages) THEN state
  ELSE extract_tool_results_from_messages(
         update_state_with_tool_result(state, state.messages[i].name,
                                       state.messages[i].result, i),
         i + 1)

ScanInit ==
  /\ call = [phase |-> "scan", steps |-> 0, messages |-> << >>, domain_knowledge |-> << >>,
             disruption_data |-> << >>, risk_assessment |-> 0]
  /\ agents_ok = TRUE /\ tasks = EmptyDict /\ uploads = EmptyDict /\ routes = EmptyDict
  /\ job = EmptyDict /\ returned = {} /\ touched = {}
  /\ resp = [op |-> "none", id |-> NoId, code |-> 0]
  /\ cost = Unused /\ rank = Unused /\ flow = Unused

\* one pass of _react_agent_node: the agent adds its tool calls to the conversation,
\* then the tool results are extracted from the conversation
scan_react_agent_node ==
  /\ call.phase = "scan" /\ call.steps < MaxScans
  /\ \E n \in 0 .. MaxCalls : \E new \in [1 .. n -> ToolCalls] :
       call' = extract_tool_results_from_messages(
                 [call EXCEPT !.messages = @ \o new, !.steps = @ + 1], 1)
  /\ UNCHANGED <<svcVars, cost, rank, flow>>

ScanNext ==
  \/ scan_react_agent_node

ScanSpec == ScanInit /\ [][ScanNext]_vars

\* C34: each tool call's result is recorded at most once: domain_knowledge and
\* disruption_data hold as many items as the distinct calls returned, however often the
\* conversation is scanned.
C34_ResultsRecordedOnce ==
  call.phase = "scan" =>
    LET Returned_by(name) ==
          {<<i, j>> \in (DOMAIN call.messages) \X (1 .. 2) :
             /\ call.messages[i].name = name
             /\ \/ call.messages[i].result.json = "array" /\ j <= call.messages[i].result.len
                \/ call.messages[i].result.json = "object" /\ j = 1}
    IN /\ Len(call.domain_knowledge) = Cardinality(Returned_by("search_domain_knowledge"))
       /\ Len(call.disruption_data)
            = Cardinality(Returned_by("search_supply_chain_disruptions"))

\* within one pass each result is recorded once
C34_OncePerScan ==
  (call.phase = "scan" /\ call.steps = 1) =>
    \A i, j \in DOMAIN call.domain_knowledge :
      call.domain_knowledge[i] = call.domain_knowledge[j] => i = j


(* ------ main.py 375-381: the ids under which returned routes are stored ------ *)
\* Two jobs at the point where optimize_routes has returned. A returned route carries the
\* id of the candidate it was ranked from; when the ranking is the result of an
\* optimize_route_selection call of the model (route_planning_agent.py 198-200) that id
\* is the one written in the call's candidate_routes_json, so two returned routes, of one
\* task or of two, may carry the same id. The ids are named by the members of RouteIds.
MaxWritten == 2

WrittenLists == UNION {[1 .. n -> [id : RouteIds, ok : BOOLEAN]] : n \in 0 .. MaxWritten}

IdInit ==
  /\ agents_ok = TRUE
  /\ \E ud \in UploadInputs, rl \in [TaskIds -> WrittenLists] :
       /\ uploads = [u \in {UploadIdOf(t) : t \in TaskIds} |->
                       [id |-> u, data |-> ud, uploaded_at |-> "ts",
                        status |-> "processing", scenario_enabled |-> FALSE]]
       /\ tasks = [t \in TaskIds |->
                     [task_id |-> t, upload_id |-> UploadIdOf(t),
                      status |-> "processing", progress |-> 90,
                      current_step |-> "route_agent_optimization_complete",
                      created_at |-> "ts", upload_data |-> ud, scenario_enabled |-> FALSE]]
       /\ job = [t \in TaskIds |->
                   [task_id |-> t, upload_data |-> ud, enable_scenario |-> FALSE,
                    pc |-> "route_end", next |-> "none", loops |-> 0,
                    sources |-> {}, gathered |-> FALSE,
                    raised |-> {}, escaped |-> "none",
                    info_result |-> DefaultInfo,
                    route_result |-> [RouteResult(t, rl[t]) EXCEPT !.optimized_routes = rl[t]]]]
  /\ routes = EmptyDict
  /\ returned = TaskIds
  /\ touched = {}
  /\ resp = [op |-> "none", id |-> NoId, code |-> 0]
  /\ cost = Unused /\ rank = Unused /\ flow = Unused /\ call = Unused

IdSpec == IdInit /\ [][ReturnNext]_vars

\* C35: routes stored for one task are never overwritten by routes of another task or by
\* another route of the same task: every store_route call uses an id that is not already
\* present, so that an approval is never lost.
C35_StoreUsesFreshId ==
  [][\A j \in DOMAIN job :
       (job[j].pc = "route_end" /\ job'[j].pc = "done") =>
         /\ \A x \in DOMAIN routes : routes'[x] = routes[x]
         /\ Cardinality(DOMAIN routes') =
              Cardinality(DOMAIN routes)
              + Cardinality({i \in DOMAIN Returned(j) : Returned(j)[i].ok})]_vars

\* the consequence for approvals alone
C35_ApprovalKept ==
  [][\A x \in DOMAIN routes :
       routes[x].status = "approved" => routes'[x].status # "pending_approval"]_vars

\* with ids that differ, as those of uuid4 do, stored routes are left alone
C35_FreshIdsAreKept ==
  [][\A j \in DOMAIN job :
       (/\ job[j].pc = "route_end" /\ job'[j].pc = "done"
        /\ \A i \in DOMAIN Returned(j) : Returned(j)[i].id \notin DOMAIN routes) =>
         \A x \in DOMAIN routes : routes'[x] = routes[x]]_vars


(* ----------------- claims about the upload records -------------------- *)
\* C36: background processing never modifies an upload record: once store_upload has
\* stored it, the record, with status processing, stays as it is whether the task
\* completes or fails, and the upload_id of every task names a stored upload.
C36_UploadRecordIsKept ==
  /\ [](\A t \in DOMAIN tasks :
          /\ "upload_id" \in DOMAIN tasks[t]
          /\ tasks[t].upload_id \in DOMAIN uploads
          /\ uploads[tasks[t].upload_id].id = tasks[t].upload_id
          /\ uploads[tasks[t].upload_id].status = "processing")
  /\ [][\A u \in DOMAIN uploads : u \in DOMAIN uploads' /\ uploads'[u] = uploads[u]]_vars

C36_Witness ==
  /\ \E t \in DOMAIN tasks :
       /\ tasks[t].status = "completed"
       /\ uploads[tasks[t].upload_id].status = "processing"
  /\ \E t \in DOMAIN tasks :
       /\ tasks[t].status = "failed"
       /\ uploads[tasks[t].upload_id].status = "processing"

====
